---- MODULE Spec2Model ----
(***************************************************************************)
(* Model of the documentation compressor (scripts/compress_docs.py) and of *)
(* the heuristic decompressor (scripts/decompress.py).                     *)
(*                                                                         *)
(* A text is a sequence of characters; a character is a one-character      *)
(* string, except the backtick (written BT), the control characters and    *)
(* the non-ASCII glyphs, written by name ("U+2192" is the arrow).          *)
(* Positions are those of TLA+ sequences: Python's position p is p + 1     *)
(* here, and a span <<s, e>> covers the positions s .. e - 1.              *)
(***************************************************************************)
EXTENDS Integers, Sequences, FiniteSets, TLC

VARIABLES
  input,     \* the text handed to the function
  op,        \* the function that was applied to it ("none": not yet)
  output,    \* the text the function returned
  origin,    \* for each character of output, the position of input it was
             \* copied from (0: the function wrote it)
  raised,    \* whether the function raised instead of returning
  original,  \* the document input was compressed from (NoText: none)
  parsed,    \* what yaml.safe_load makes of input (NotParsed: not a dev log)
  calls,     \* the calls of the drivers that run side by side, each with
             \* its local variables
  substitution,  \* the locals of a substitution stage on its way through
                 \* the entries of its table (Idle: no stage under way)
  rotation   \* the dev log and the archive directory of rotate_dev_log.py,
             \* and what they were before its last run (NoRotation: none)

vars == <<input, op, output, origin, raised, original, parsed, calls, substitution, rotation>>

\* ------------------------------------------------------------------ text

\* The characters of a quoted string, as a sequence.
S(s) == [i \in 1 .. Len(s) |-> SubSeq(s, i, i)]

BT == "BACKTICK"
NL == "U+000A"
TAB == "U+0009"
ARROW == "U+2192"

LowerLetters == S("abcdefghijklmnopqrstuvwxyz")
UpperLetters == S("ABCDEFGHIJKLMNOPQRSTUVWXYZ")
Digits == S("0123456789")

Range(s) == {s[i] : i \in DOMAIN s}

LowerSet == Range(LowerLetters)
UpperSet == Range(UpperLetters)
LetterSet == LowerSet \cup UpperSet
DigitSet == Range(Digits)

\* \w of Python's re on the model's characters: no glyph of the tables is
\* alphanumeric.
WordChars == LetterSet \cup DigitSet \cup {"_"}

\* \s and str.isspace() on the model's characters.
SpaceChars == {" ", TAB, NL}

ToLower ==
  [A |-> "a", B |-> "b", C |-> "c", D |-> "d", E |-> "e", F |-> "f", G |-> "g",
   H |-> "h", I |-> "i", J |-> "j", K |-> "k", L |-> "l", M |-> "m", N |-> "n",
   O |-> "o", P |-> "p", Q |-> "q", R |-> "r", S |-> "s", T |-> "t", U |-> "u",
   V |-> "v", W |-> "w", X |-> "x", Y |-> "y", Z |-> "z"]

ToUpper ==
  [a |-> "A", b |-> "B", c |-> "C", d |-> "D", e |-> "E", f |-> "F", g |-> "G",
   h |-> "H", i |-> "I", j |-> "J", k |-> "K", l |-> "L", m |-> "M", n |-> "N",
   o |-> "O", p |-> "P", q |-> "Q", r |-> "R", s |-> "S", t |-> "T", u |-> "U",
   v |-> "V", w |-> "W", x |-> "X", y |-> "Y", z |-> "Z"]

LowerChar(c) == IF c \in UpperSet THEN ToLower[c] ELSE c
UpperChar(c) == IF c \in LowerSet THEN ToUpper[c] ELSE c

\* str.lower(), str.upper(), str.capitalize()
Lower(s) == [i \in 1 .. Len(s) |-> LowerChar(s[i])]
Upper(s) == [i \in 1 .. Len(s) |-> UpperChar(s[i])]
Capitalize(s) ==
  [i \in 1 .. Len(s) |-> IF i = 1 THEN UpperChar(s[i]) ELSE LowerChar(s[i])]

\* str.islower(), str.isupper(): some cased character, and none of the other case.
IsLower(s) == (\E i \in DOMAIN s : s[i] \in LowerSet) /\ (\A i \in DOMAIN s : s[i] \notin UpperSet)
IsUpper(s) == (\E i \in DOMAIN s : s[i] \in UpperSet) /\ (\A i \in DOMAIN s : s[i] \notin LowerSet)

\* s[a:b] of Python for the span <<a, b>>.
Slice(s, a, b) == SubSeq(s, a, b - 1)

\* s.startswith(p), and s[i:i+len(p)] == p
StartsAt(s, p, i) == i + Len(p) - 1 <= Len(s) /\ SubSeq(s, i, i + Len(p) - 1) = p
StartsWith(s, p) == StartsAt(s, p, 1)

IsWordAt(s, i) == i \in 1 .. Len(s) /\ s[i] \in WordChars

\* A boundary test that finds a boundary at every position.
Boundary_anywhere(s, i) == i \in 1 .. Len(s) + 1

\* \b of Python's re before position i (i = Len(s) + 1: at the end).
Boundary(s, i) == IsWordAt(s, i - 1) # IsWordAt(s, i)

\* The first position >= i whose character is not in class (Len(s) + 1: none).
RECURSIVE RunEnd(_, _, _)
RunEnd(s, i, class) ==
  IF i <= Len(s) /\ s[i] \in class THEN RunEnd(s, i + 1, class) ELSE i

\* The first position >= i whose character is in stop (Len(s) + 1: none).
RECURSIVE RunEndNot(_, _, _)
RunEndNot(s, i, stop) ==
  IF i <= Len(s) /\ s[i] \notin stop THEN RunEndNot(s, i + 1, stop) ELSE i

\* re.finditer of a literal: the spans of its non-overlapping occurrences
\* from position pos on, leftmost first.
RECURSIVE FindLiteral(_, _, _)
FindLiteral(s, p, pos) ==
  IF pos + Len(p) - 1 > Len(s) THEN <<>>
  ELSE IF StartsAt(s, p, pos)
       THEN <<<<pos, pos + Len(p)>>>> \o FindLiteral(s, p, pos + Len(p))
       ELSE FindLiteral(s, p, pos + 1)

\* re.finditer(r'\b' + re.escape(word) + r'\b', text, re.IGNORECASE); low is
\* Lower(text) and lword is Lower(word).
RECURSIVE FindWord(_, _, _, _)
FindWord(text, low, lword, pos) ==
  IF pos + Len(lword) - 1 > Len(text) THEN <<>>
  ELSE IF /\ StartsAt(low, lword, pos)
          /\ Boundary(text, pos)
          /\ Boundary(text, pos + Len(lword))
       THEN <<<<pos, pos + Len(lword)>>>> \o FindWord(text, low, lword, pos + Len(lword))
       ELSE FindWord(text, low, lword, pos + 1)

WordMatches(text, word) == FindWord(text, Lower(text), Lower(word), 1)

\* ------------------------------------------------- configuration tables

\* compress_docs.py REPLACEMENTS: (term, abbreviation) in dictionary order;
\* a key written twice in the literal keeps its first place.
REPLACEMENTS ==
  <<
    <<S("MCP"), S("Model Context Protocol")>>,
    <<S("mcp"), S("Model Context Protocol")>>,
    <<S("function"), S("fn")>>,
    <<S("implementation"), S("impl")>>,
    <<S("parameter"), S("param")>>,
    <<S("configuration"), S("config")>>,
    <<S("application"), S("app")>>,
    <<S("database"), S("db")>>,
    <<S("authentication"), S("auth")>>,
    <<S("directory"), S("dir")>>,
    <<S("repository"), S("repo")>>,
    <<S("initialize"), S("init")>>,
    <<S("integration"), S("integ")>>,
    <<S("development"), S("dev")>>,
    <<S("production"), S("prod")>>,
    <<S("environment"), S("env")>>,
    <<S("documentation"), S("docs")>>,
    <<S("distribution"), S("dist")>>,
    <<S("architecture"), S("arch")>>,
    <<S("argument"), S("arg")>>,
    <<S("attribute"), S("attr")>>,
    <<S("background"), S("bg")>>,
    <<S("certificate"), S("cert")>>,
    <<S("command"), S("cmd")>>,
    <<S("communication"), S("comm")>>,
    <<S("connection"), S("conn")>>,
    <<S("constant"), S("const")>>,
    <<S("definition"), S("def")>>,
    <<S("dependency"), S("dep")>>,
    <<S("description"), S("desc")>>,
    <<S("document"), S("doc")>>,
    <<S("execution"), S("exec")>>,
    <<S("extension"), S("ext")>>,
    <<S("frequency"), S("freq")>>,
    <<S("generator"), S("gen")>>,
    <<S("identifier"), S("id")>>,
    <<S("information"), S("info")>>,
    <<S("instance"), S("inst")>>,
    <<S("instruction"), S("instr")>>,
    <<S("interface"), S("iface")>>,
    <<S("library"), S("lib")>>,
    <<S("message"), S("msg")>>,
    <<S("modification"), S("mod")>>,
    <<S("notification"), S("notif")>>,
    <<S("operation"), S("op")>>,
    <<S("optimization"), S("opt")>>,
    <<S("organization"), S("org")>>,
    <<S("package"), S("pkg")>>,
    <<S("permission"), S("perm")>>,
    <<S("process"), S("proc")>>,
    <<S("property"), S("prop")>>,
    <<S("reference"), S("ref")>>,
    <<S("registration"), S("reg")>>,
    <<S("request"), S("req")>>,
    <<S("resource"), S("res")>>,
    <<S("response"), S("resp")>>,
    <<S("session"), S("sess")>>,
    <<S("specification"), S("spec")>>,
    <<S("statistic"), S("stat")>>,
    <<S("structure"), S("struct")>>,
    <<S("synchronization"), S("sync")>>,
    <<S("system"), S("sys")>>,
    <<S("temporary"), S("temp")>>,
    <<S("transaction"), S("tx")>>,
    <<S("transformation"), S("transform")>>,
    <<S("utility"), S("util")>>,
    <<S("validation"), S("valid")>>,
    <<S("variable"), S("var")>>,
    <<S("version"), S("ver")>>,
    <<S("in order to"), S("to")>>,
    <<S("make sure"), S("ensure")>>,
    <<S("take a look at"), S("check")>>,
    <<S("find out"), S("discover")>>,
    <<S("set up"), S("setup")>>,
    <<S("due to the fact that"), S("because")>>,
    <<S("for the purpose of"), S("for")>>,
    <<S("in the event that"), S("if")>>,
    <<S("in the process of"), S("while")>>,
    <<S("on the basis of"), S("based on")>>,
    <<S("in spite of the fact that"), S("although")>>,
    <<S("at this point in time"), S("now")>>,
    <<S("configure"), S("config")>>,
    <<S("execute"), S("exec")>>,
    <<S("implement"), S("impl")>>
  >>

\* compress_docs.py PRESERVE_PHRASES
PRESERVE_PHRASES ==
  <<
    <<BT>> \o <<BT>> \o <<BT>> \o S("bash"),
    <<BT>> \o <<BT>> \o <<BT>> \o S("python"),
    <<BT>> \o <<BT>> \o <<BT>> \o S("javascript"),
    <<BT>> \o <<BT>> \o <<BT>>,
    S("git commit"),
    S("git add"),
    S("git push"),
    S("git pull"),
    S("git reset"),
    S("/Users/"),
    S("/home/"),
    S("backend/"),
    S("frontend/"),
    S("function("),
    S("def "),
    S("class "),
    S("import "),
    S("from "),
    S("require("),
    S("CRITICAL:"),
    S("WARNING:"),
    S("ERROR:"),
    S("IMPORTANT:")
  >>

\* compress_docs.py NEVER_COMPRESS
NEVER_COMPRESS ==
  <<
    S("the"),
    S("and"),
    S("but"),
    S("for"),
    S("not"),
    S("with"),
    S("this"),
    S("that"),
    S("git"),
    S("npm"),
    S("yarn"),
    S("node"),
    S("react"),
    S("vue"),
    S("python"),
    S("java"),
    S("code"),
    S("file"),
    S("test"),
    S("api"),
    S("url"),
    S("json"),
    S("xml"),
    S("html"),
    S("css"),
    S("js"),
    S("ts")
  >>

\* compress_docs.py SYMBOLS: (phrase, glyph) in dictionary order; a glyph is
\* written as the sequence of its code points.
SYMBOLS ==
  <<
    <<S("returns"), <<"U+2192">>>>,
    <<S("greater than"), S(">")>>,
    <<S("less than"), S("<")>>,
    <<S("equal to"), S("=")>>,
    <<S("not equal to"), <<"U+2260">>>>,
    <<S("approximately"), <<"U+2248">>>>,
    <<S("and"), S("&")>>,
    <<S("or"), S("|")>>,
    <<S("therefore"), <<"U+2234">>>>,
    <<S("because"), <<"U+2235">>>>,
    <<S("for all"), <<"U+2200">>>>,
    <<S("there exists"), <<"U+2203">>>>,
    <<S("element of"), <<"U+2208">>>>,
    <<S("not element of"), <<"U+2209">>>>,
    <<S("subset of"), <<"U+2282">>>>,
    <<S("infinite"), <<"U+221E">>>>,
    <<S("degrees"), <<"U+00B0">>>>,
    <<S("square root"), <<"U+221A">>>>,
    <<S("check"), <<"U+2713">>>>,
    <<S("important"), <<"U+2757">>>>,
    <<S("warning"), <<"U+26A0">> \o <<"U+FE0F">>>>,
    <<S("error"), <<"U+1F534">>>>,
    <<S("success"), <<"U+2705">>>>,
    <<S("failure"), <<"U+274C">>>>,
    <<S("note"), <<"U+1F4DD">>>>,
    <<S("idea"), <<"U+1F4A1">>>>,
    <<S("question"), <<"U+2753">>>>,
    <<S("time"), <<"U+23F1">> \o <<"U+FE0F">>>>,
    <<S("required"), <<"U+25C9">>>>,
    <<S("optional"), <<"U+25CB">>>>
  >>

\* decompress.py EXPANSIONS: (abbreviation, long form) in dictionary order.
EXPANSIONS ==
  <<
    <<S("fn"), S("function")>>,
    <<S("impl"), S("implementation")>>,
    <<S("param"), S("parameter")>>,
    <<S("config"), S("configuration")>>,
    <<S("app"), S("application")>>,
    <<S("db"), S("database")>>,
    <<S("auth"), S("authentication")>>,
    <<S("dir"), S("directory")>>,
    <<S("repo"), S("repository")>>,
    <<S("init"), S("initialize")>>,
    <<S("integ"), S("integration")>>,
    <<S("dev"), S("development")>>,
    <<S("prod"), S("production")>>,
    <<S("env"), S("environment")>>,
    <<S("docs"), S("documentation")>>,
    <<S("dist"), S("distribution")>>,
    <<S("arch"), S("architecture")>>,
    <<S("arg"), S("argument")>>,
    <<S("attr"), S("attribute")>>,
    <<S("bg"), S("background")>>,
    <<S("cert"), S("certificate")>>,
    <<S("cmd"), S("command")>>,
    <<S("comm"), S("communication")>>,
    <<S("conn"), S("connection")>>,
    <<S("desc"), S("description")>>,
    <<S("dest"), S("destination")>>,
    <<S("exec"), S("execute")>>,
    <<S("ext"), S("extension")>>,
    <<S("fig"), S("figure")>>,
    <<S("gen"), S("generate")>>,
    <<S("incl"), S("include")>>,
    <<S("info"), S("information")>>,
    <<S("lib"), S("library")>>,
    <<S("loc"), S("location")>>,
    <<S("max"), S("maximum")>>,
    <<S("min"), S("minimum")>>,
    <<S("msg"), S("message")>>,
    <<S("num"), S("number")>>,
    <<S("obj"), S("object")>>,
    <<S("opt"), S("option")>>,
    <<S("orig"), S("original")>>,
    <<S("pkg"), S("package")>>,
    <<S("pref"), S("preference")>>,
    <<S("proc"), S("process")>>,
    <<S("ref"), S("reference")>>,
    <<S("req"), S("requirement")>>,
    <<S("resp"), S("response")>>,
    <<S("spec"), S("specification")>>,
    <<S("src"), S("source")>>,
    <<S("std"), S("standard")>>,
    <<S("str"), S("string")>>,
    <<S("sync"), S("synchronize")>>,
    <<S("temp"), S("temporary")>>,
    <<S("usr"), S("user")>>,
    <<S("util"), S("utility")>>,
    <<S("val"), S("value")>>,
    <<S("var"), S("variable")>>,
    <<S("ver"), S("version")>>,
    <<S("mgmt"), S("management")>>,
    <<S("deps"), S("dependencies")>>,
    <<S("nm"), S("node_modules")>>,
    <<S("auto"), S("automatically")>>,
    <<S("js"), S("JavaScript")>>,
    <<S("ts"), S("TypeScript")>>,
    <<S("py"), S("Python")>>,
    <<S("rb"), S("Ruby")>>,
    <<S("go"), S("Go")>>,
    <<S("rs"), S("Rust")>>,
    <<S("cpp"), S("C++")>>,
    <<S("cs"), S("C#")>>,
    <<S("kt"), S("Kotlin")>>,
    <<S("sw"), S("Swift")>>,
    <<S("chk"), S("check if")>>,
    <<S("w/"), S("with")>>,
    <<S("w/o"), S("without")>>,
    <<S("b/c"), S("because")>>,
    <<S("thru"), S("through")>>,
    <<S("tho"), S("though")>>,
    <<S("btw"), S("by the way")>>,
    <<S(".md"), S(".md")>>,
    <<S(".json"), S(".json")>>,
    <<S(".yaml"), S(".yaml")>>,
    <<S(".yml"), S(".yml")>>,
    <<S(".txt"), S(".txt")>>,
    <<S(".log"), S(".log")>>,
    <<S(".sh"), S(".sh")>>,
    <<S(".py"), S(".py")>>,
    <<S(".js"), S(".js")>>,
    <<S(".ts"), S(".ts")>>,
    <<S(".jsx"), S(".jsx")>>,
    <<S(".tsx"), S(".tsx")>>,
    <<S(".html"), S(".html")>>,
    <<S(".css"), S(".css")>>
  >>

\* decompress.py known_restorations: (compressed, full) as the dict literal
\* evaluates (a key written twice keeps its last value).
known_restorations ==
  <<
    <<S("prjct"), S("project")>>,
    <<S("srvc"), S("service")>>,
    <<S("cmpnt"), S("component")>>,
    <<S("tst"), S("test")>>,
    <<S("dbg"), S("debug")>>,
    <<S("tmp"), S("temporary")>>,
    <<S("rmv"), S("remove")>>,
    <<S("crt"), S("create")>>,
    <<S("updt"), S("update")>>,
    <<S("del"), S("delete")>>,
    <<S("rtrn"), S("return")>>,
    <<S("err"), S("error")>>,
    <<S("func"), S("function")>>,
    <<S("mthd"), S("method")>>,
    <<S("prm"), S("parameter")>>,
    <<S("vld"), S("valid")>>,
    <<S("invld"), S("invalid")>>,
    <<S("enbld"), S("enabled")>>,
    <<S("dsbld"), S("disabled")>>,
    <<S("actv"), S("active")>>,
    <<S("inactv"), S("inactive")>>,
    <<S("pndng"), S("pending")>>,
    <<S("sccss"), S("success")>>,
    <<S("fail"), S("failure")>>,
    <<S("hndlr"), S("handler")>>,
    <<S("mdlwr"), S("middleware")>>,
    <<S("rtr"), S("router")>>,
    <<S("ctrl"), S("controller")>>,
    <<S("mdl"), S("model")>>,
    <<S("schma"), S("schema")>>,
    <<S("vldtn"), S("validation")>>,
    <<S("sess"), S("session")>>,
    <<S("tkn"), S("token")>>,
    <<S("pwd"), S("password")>>,
    <<S("hsh"), S("hash")>>,
    <<S("slt"), S("salt")>>,
    <<S("encr"), S("encrypt")>>,
    <<S("decr"), S("decrypt")>>,
    <<S("hdr"), S("header")>>,
    <<S("bdy"), S("body")>>,
    <<S("qry"), S("query")>>,
    <<S("prms"), S("params")>>,
    <<S("sts"), S("status")>>,
    <<S("cd"), S("code")>>,
    <<S("dflt"), S("default")>>,
    <<S("len"), S("length")>>,
    <<S("sz"), S("size")>>,
    <<S("cnt"), S("count")>>,
    <<S("idx"), S("index")>>,
    <<S("pos"), S("position")>>,
    <<S("strt"), S("start")>>,
    <<S("frst"), S("first")>>,
    <<S("lst"), S("last")>>,
    <<S("prev"), S("previous")>>,
    <<S("nxt"), S("next")>>,
    <<S("curr"), S("current")>>,
    <<S("prsnt"), S("present")>>,
    <<S("abst"), S("absent")>>,
    <<S("avail"), S("available")>>,
    <<S("unavail"), S("unavailable")>>,
    <<S("disconn"), S("disconnection")>>,
    <<S("tm"), S("time")>>,
    <<S("dt"), S("date")>>,
    <<S("yr"), S("year")>>,
    <<S("mo"), S("month")>>,
    <<S("dy"), S("day")>>,
    <<S("hr"), S("hour")>>,
    <<S("sec"), S("second")>>,
    <<S("ms"), S("millisecond")>>,
    <<S("tz"), S("timezone")>>,
    <<S("fmt"), S("format")>>,
    <<S("prs"), S("parse")>>,
    <<S("conv"), S("convert")>>,
    <<S("calc"), S("calculate")>>,
    <<S("comp"), S("compute")>>,
    <<S("bld"), S("build")>>,
    <<S("inst"), S("install")>>,
    <<S("cfg"), S("configure")>>,
    <<S("stp"), S("stop")>>,
    <<S("rst"), S("restart")>>,
    <<S("pse"), S("pause")>>,
    <<S("rsme"), S("resume")>>,
    <<S("hndl"), S("handle")>>,
    <<S("mon"), S("monitor")>>,
    <<S("trc"), S("trace")>>,
    <<S("wrn"), S("warning")>>,
    <<S("notif"), S("notification")>>,
    <<S("alrt"), S("alert")>>,
    <<S("evt"), S("event")>>,
    <<S("trgr"), S("trigger")>>,
    <<S("lstnr"), S("listener")>>,
    <<S("emt"), S("emit")>>,
    <<S("brdcst"), S("broadcast")>>,
    <<S("sub"), S("subscribe")>>,
    <<S("unsub"), S("unsubscribe")>>,
    <<S("pub"), S("publish")>>,
    <<S("q"), S("queue")>>,
    <<S("stck"), S("stack")>>,
    <<S("buff"), S("buffer")>>,
    <<S("strm"), S("stream")>>,
    <<S("btch"), S("batch")>>,
    <<S("sngl"), S("single")>>,
    <<S("mult"), S("multiple")>>,
    <<S("flt"), S("filter")>>,
    <<S("rdce"), S("reduce")>>,
    <<S("grp"), S("group")>>,
    <<S("aggr"), S("aggregate")>>,
    <<S("splt"), S("split")>>,
    <<S("mrg"), S("merge")>>,
    <<S("comb"), S("combine")>>,
    <<S("extr"), S("extract")>>,
    <<S("enc"), S("encode")>>,
    <<S("dec"), S("decode")>>,
    <<S("ser"), S("serialize")>>,
    <<S("deser"), S("deserialize")>>,
    <<S("cmp"), S("compress")>>,
    <<S("decmp"), S("decompress")>>,
    <<S("rd"), S("read")>>,
    <<S("wr"), S("write")>>,
    <<S("apnd"), S("append")>>,
    <<S("mv"), S("move")>>,
    <<S("cp"), S("copy")>>,
    <<S("rnm"), S("rename")>>,
    <<S("pth"), S("path")>>,
    <<S("fl"), S("file")>>,
    <<S("fldr"), S("folder")>>,
    <<S("perm"), S("permission")>>,
    <<S("own"), S("owner")>>,
    <<S("crtd"), S("created")>>,
    <<S("mdfd"), S("modified")>>,
    <<S("accssd"), S("accessed")>>,
    <<S("lck"), S("lock")>>,
    <<S("unlck"), S("unlock")>>,
    <<S("opn"), S("open")>>,
    <<S("cls"), S("class")>>,
    <<S("sv"), S("save")>>,
    <<S("ld"), S("load")>>,
    <<S("imprt"), S("import")>>,
    <<S("exprt"), S("export")>>,
    <<S("incl"), S("include")>>,
    <<S("excl"), S("exclude")>>,
    <<S("dpnd"), S("depend")>>,
    <<S("dpndncy"), S("dependency")>>,
    <<S("frmwrk"), S("framework")>>,
    <<S("plgn"), S("plugin")>>,
    <<S("wdgt"), S("widget")>>,
    <<S("elm"), S("element")>>,
    <<S("prop"), S("property")>>,
    <<S("cstm"), S("custom")>>,
    <<S("ovrd"), S("override")>>,
    <<S("inhrt"), S("inherit")>>,
    <<S("extnd"), S("extend")>>,
    <<S("abstr"), S("abstract")>>,
    <<S("intrf"), S("interface")>>,
    <<S("cnstr"), S("constructor")>>,
    <<S("dstr"), S("destructor")>>,
    <<S("priv"), S("private")>>,
    <<S("prot"), S("protected")>>,
    <<S("stat"), S("static")>>,
    <<S("thrw"), S("throw")>>,
    <<S("ctch"), S("catch")>>,
    <<S("finlly"), S("finally")>>,
    <<S("elif"), S("else if")>>,
    <<S("swtch"), S("switch")>>,
    <<S("brk"), S("break")>>,
    <<S("cont"), S("continue")>>,
    <<S("iter"), S("iterate")>>,
    <<S("recur"), S("recursive")>>,
    <<S("prom"), S("promise")>>,
    <<S("rslv"), S("resolve")>>,
    <<S("rjct"), S("reject")>>,
    <<S("obs"), S("observer")>>,
    <<S("subj"), S("subject")>>,
    <<S("vec"), S("vector")>>,
    <<S("dict"), S("dictionary")>>,
    <<S("tbl"), S("table")>>,
    <<S("grph"), S("graph")>>,
    <<S("prnt"), S("parent")>>,
    <<S("chld"), S("child")>>,
    <<S("sib"), S("sibling")>>,
    <<S("anc"), S("ancestor")>>,
    <<S("dpth"), S("depth")>>,
    <<S("hght"), S("height")>>,
    <<S("lvl"), S("level")>>,
    <<S("trvrs"), S("traverse")>>,
    <<S("srch"), S("search")>>,
    <<S("fnd"), S("find")>>,
    <<S("ins"), S("insert")>>,
    <<S("upd"), S("update")>>,
    <<S("repl"), S("replace")>>,
    <<S("rev"), S("reverse")>>,
    <<S("shffl"), S("shuffle")>>,
    <<S("rndm"), S("random")>>,
    <<S("avg"), S("average")>>,
    <<S("cap"), S("capacity")>>,
    <<S("lmt"), S("limit")>>,
    <<S("thr"), S("threshold")>>,
    <<S("rng"), S("range")>>,
    <<S("bnd"), S("bound")>>,
    <<S("loc"), S("location")>>,
    <<S("coord"), S("coordinate")>>,
    <<S("wdth"), S("width")>>,
    <<S("rad"), S("radius")>>,
    <<S("diam"), S("diameter")>>,
    <<S("vol"), S("volume")>>,
    <<S("wght"), S("weight")>>,
    <<S("dens"), S("density")>>,
    <<S("press"), S("pressure")>>,
    <<S("vel"), S("velocity")>>,
    <<S("acc"), S("acceleration")>>,
    <<S("frc"), S("force")>>,
    <<S("enrg"), S("energy")>>,
    <<S("pwr"), S("power")>>,
    <<S("freq"), S("frequency")>>,
    <<S("amp"), S("amplitude")>>,
    <<S("phs"), S("phase")>>,
    <<S("wvlngth"), S("wavelength")>>,
    <<S("clr"), S("color")>>,
    <<S("brght"), S("brightness")>>,
    <<S("contr"), S("contrast")>>,
    <<S("opac"), S("opacity")>>,
    <<S("transp"), S("transparency")>>,
    <<S("vis"), S("visible")>>,
    <<S("hid"), S("hidden")>>,
    <<S("dspl"), S("display")>>,
    <<S("rndr"), S("render")>>,
    <<S("pnt"), S("paint")>>,
    <<S("refr"), S("refresh")>>,
    <<S("anim"), S("animate")>>,
    <<S("trans"), S("transition")>>,
    <<S("transf"), S("transform")>>,
    <<S("rot"), S("rotate")>>,
    <<S("scl"), S("scale")>>,
    <<S("skw"), S("skew")>>,
    <<S("flp"), S("flip")>>,
    <<S("mirr"), S("mirror")>>,
    <<S("algn"), S("align")>>,
    <<S("cntr"), S("center")>>,
    <<S("lft"), S("left")>>,
    <<S("rght"), S("right")>>,
    <<S("btm"), S("bottom")>>,
    <<S("horiz"), S("horizontal")>>,
    <<S("vert"), S("vertical")>>,
    <<S("diag"), S("diagonal")>>,
    <<S("prll"), S("parallel")>>,
    <<S("perp"), S("perpendicular")>>,
    <<S("tang"), S("tangent")>>,
    <<S("norm"), S("normal")>>,
    <<S("curv"), S("curve")>>,
    <<S("rect"), S("rectangle")>>,
    <<S("sqr"), S("square")>>,
    <<S("circ"), S("circle")>>,
    <<S("ellps"), S("ellipse")>>,
    <<S("poly"), S("polygon")>>,
    <<S("tri"), S("triangle")>>,
    <<S("quad"), S("quadrilateral")>>,
    <<S("pent"), S("pentagon")>>,
    <<S("hex"), S("hexagon")>>,
    <<S("oct"), S("octagon")>>,
    <<S("sph"), S("sphere")>>,
    <<S("cyl"), S("cylinder")>>,
    <<S("pyr"), S("pyramid")>>,
    <<S("prsm"), S("prism")>>
  >>

\* ------------------------------------------------- protected regions

\* [^\s<>"{}|\\^`\[\]] is every character outside UrlStop.
UrlStop == SpaceChars \cup {"<", ">", "\"", "{", "}", "|", "\\", "^", BT, "[", "]"}

\* [a-zA-Z0-9.-]
DomainChars == LetterSet \cup DigitSet \cup {".", "-"}

\* prefix, then one or more characters outside stop: the end of the match
\* that starts at i, 0 when there is none.
PrefixRunEnd(s, i, prefix, stop) ==
  IF StartsAt(s, prefix, i) /\ RunEndNot(s, i + Len(prefix), stop) > i + Len(prefix)
  THEN RunEndNot(s, i + Len(prefix), stop)
  ELSE 0

\* prefix, then one or more digits.
PrefixDigitsEnd(s, i, prefix) ==
  IF StartsAt(s, prefix, i) /\ RunEnd(s, i + Len(prefix), DigitSet) > i + Len(prefix)
  THEN RunEnd(s, i + Len(prefix), DigitSet)
  ELSE 0

\* git@[^\s<>"{}|\\^`\[\]:]+:[^\s]+
GitSshEnd(s, i) ==
  LET a == i + 4
      b == RunEndNot(s, a, UrlStop \cup {":"})
  IN  IF /\ StartsAt(s, S("git@"), i)
         /\ b > a
         /\ b <= Len(s) /\ s[b] = ":"
         /\ RunEndNot(s, b + 1, SpaceChars) > b + 1
      THEN RunEndNot(s, b + 1, SpaceChars)
      ELSE 0

\* [a-zA-Z0-9.-]+\.[a-zA-Z]{2,}(?:/[^\s<>"{}|\\^`\[\]]*)?  The greedy first run
\* gives back characters until a dot followed by two letters is found: the
\* last such dot of the run.
DomainEnd(s, i) ==
  LET j == RunEnd(s, i, DomainChars)
      dots == {k \in i + 1 .. j - 1 :
                 /\ s[k] = "."
                 /\ k + 2 <= Len(s)
                 /\ s[k + 1] \in LetterSet
                 /\ s[k + 2] \in LetterSet}
  IN  IF dots = {} THEN 0
      ELSE LET k == CHOOSE d \in dots : \A e \in dots : e <= d
               l == RunEnd(s, k + 1, LetterSet)
           IN  IF l <= Len(s) /\ s[l] = "/"
               THEN RunEndNot(s, l + 1, UrlStop)
               ELSE l

\* re.match of URL_PATTERNS[n] at position i: the end of the match, 0: none.
UrlMatchEnd(s, i, n) ==
  CASE n = 1 -> IF PrefixRunEnd(s, i, S("https://"), UrlStop) > 0
                THEN PrefixRunEnd(s, i, S("https://"), UrlStop)
                ELSE PrefixRunEnd(s, i, S("http://"), UrlStop)
    [] n = 2 -> PrefixRunEnd(s, i, S("ftp://"), UrlStop)
    [] n = 3 -> PrefixRunEnd(s, i, S("ssh://"), UrlStop)
    [] n = 4 -> GitSshEnd(s, i)
    [] n = 5 -> DomainEnd(s, i)
    [] n = 6 -> PrefixDigitsEnd(s, i, S("localhost:"))
    [] n = 7 -> PrefixDigitsEnd(s, i, S("127.0.0.1:"))

URL_PATTERNS == 1 .. 7

\* re.finditer(URL_PATTERNS[n], text): the spans of the matches from pos on.
RECURSIVE FindUrl(_, _, _)
FindUrl(s, n, pos) ==
  IF pos > Len(s) THEN <<>>
  ELSE IF UrlMatchEnd(s, pos, n) > 0
       THEN <<<<pos, UrlMatchEnd(s, pos, n)>>>> \o FindUrl(s, n, UrlMatchEnd(s, pos, n))
       ELSE FindUrl(s, n, pos + 1)

\* Whether a span of the set covers the position.
Covered(spans, pos) == \E span \in spans : span[1] <= pos /\ pos < span[2]

\* The matches of every pattern of URL_PATTERNS in the text.
UrlSpans(text) == UNION {Range(FindUrl(text, n, 1)) : n \in URL_PATTERNS}

is_in_url(text, pos) == Covered(UrlSpans(text), pos)

FENCE == <<BT, BT, BT>>

\* The positions of the unescaped fence markers, scanning from i.
RECURSIVE code_markers(_, _)
code_markers(text, i) ==
  IF i > Len(text) THEN <<>>
  ELSE IF StartsAt(text, FENCE, i)
       THEN IF i > 1 /\ text[i - 1] = "\\"
            THEN code_markers(text, i + 3)
            ELSE <<i>> \o code_markers(text, i + 3)
       ELSE code_markers(text, i + 1)

\* Odd number of markers before position means we're inside.
MarkersOdd(markers, pos) == Cardinality({k \in DOMAIN markers : markers[k] < pos}) % 2 = 1

is_in_code_block(text, pos) == MarkersOdd(code_markers(text, 1), pos)

\* The occurrences of every phrase of PRESERVE_PHRASES in the text.
PhraseSpans(text) ==
  UNION {Range(FindLiteral(text, PRESERVE_PHRASES[k], 1)) : k \in DOMAIN PRESERVE_PHRASES}

is_in_preserve_phrase(text, pos) == Covered(PhraseSpans(text), pos)

\* The condition under which every stage leaves a position alone.
Protected(text, pos) ==
  is_in_code_block(text, pos) \/ is_in_preserve_phrase(text, pos) \/ is_in_url(text, pos)

\* The protected positions of a text: Protected at each position, the spans
\* found once.
ProtectedSet(text) ==
  LET markers == code_markers(text, 1)
      phrases == PhraseSpans(text)
      urls == UrlSpans(text)
  IN  {pos \in 1 .. Len(text) :
         MarkersOdd(markers, pos) \/ Covered(phrases, pos) \/ Covered(urls, pos)}

\* ------------------------------------------------- traced texts

\* A stage works on a traced text: the text, for each of its characters the
\* position of the stage's input it was copied from (0: written by the
\* stage), and whether the stage raised instead of returning.
Traced(text) == [text |-> text, origin |-> [i \in 1 .. Len(text) |-> i], raised |-> FALSE]

Zeros(n) == [i \in 1 .. n |-> 0]

\* text[:start] + replacement + text[end:]
Splice(t, start, end, replacement) ==
  [t EXCEPT !.text = Slice(t.text, 1, start) \o replacement \o Slice(t.text, end, Len(t.text) + 1),
            !.origin = Slice(t.origin, 1, start) \o Zeros(Len(replacement))
                         \o Slice(t.origin, end, Len(t.origin) + 1)]

\* The characters of t at the positions kept, in their order.
Keep(t, kept) ==
  [t EXCEPT !.text = [k \in 1 .. Len(kept) |-> t.text[kept[k]]],
            !.origin = [k \in 1 .. Len(kept) |-> t.origin[kept[k]]]]

\* Pieces of a traced text: the span <<a, b>> of t, a text the stage writes,
\* and their concatenation.
Sub(t, a, b) == Keep(t, [k \in 1 .. b - a |-> a + k - 1])
Lit(text) == [text |-> text, origin |-> Zeros(Len(text)), raised |-> FALSE]
Cat(a, b) ==
  [text |-> a.text \o b.text, origin |-> a.origin \o b.origin, raised |-> a.raised \/ b.raised]

\* An exception leaves the rest of the call undone.
Bind(t, F(_)) == IF t.raised THEN t ELSE F(t)

IndexError(t) == [t EXCEPT !.raised = TRUE]

\* ------------------------------------------------- compress_docs.py

\* remove_articles without the test of the character before the article.
RECURSIVE articles_kept_anywhere(_, _, _)
articles_kept_anywhere(text, i, prot) ==
  IF i > Len(text) THEN <<>>
  ELSE IF i \in prot THEN <<i>> \o articles_kept_anywhere(text, i + 1, prot)
  ELSE IF StartsAt(text, S("a "), i) THEN articles_kept_anywhere(text, i + 2, prot)
  ELSE IF StartsAt(text, S("an "), i) THEN articles_kept_anywhere(text, i + 3, prot)
  ELSE IF StartsAt(text, S("the "), i) THEN articles_kept_anywhere(text, i + 4, prot)
  ELSE <<i>> \o articles_kept_anywhere(text, i + 1, prot)

\* Article removal that does not ask whether the position is protected.
RECURSIVE articles_kept_unprotected(_, _, _)
articles_kept_unprotected(text, i, prot) ==
  IF i > Len(text) THEN <<>>
  ELSE IF StartsAt(text, S("a "), i) /\ (i = 1 \/ text[i - 1] \in SpaceChars)
       THEN articles_kept_unprotected(text, i + 2, prot)
  ELSE IF StartsAt(text, S("an "), i) /\ (i = 1 \/ text[i - 1] \in SpaceChars)
       THEN articles_kept_unprotected(text, i + 3, prot)
  ELSE IF StartsAt(text, S("the "), i) /\ (i = 1 \/ text[i - 1] \in SpaceChars)
       THEN articles_kept_unprotected(text, i + 4, prot)
  ELSE <<i>> \o articles_kept_unprotected(text, i + 1, prot)

\* The positions remove_articles copies to its result, scanning from i; prot
\* is the set of protected positions of text.
RECURSIVE articles_kept(_, _, _)
articles_kept(text, i, prot) ==
  IF i > Len(text) THEN <<>>
  ELSE IF i \in prot THEN <<i>> \o articles_kept(text, i + 1, prot)
  ELSE IF StartsAt(text, S("a "), i) /\ (i = 1 \/ text[i - 1] \in SpaceChars)
       THEN articles_kept(text, i + 2, prot)
  ELSE IF StartsAt(text, S("an "), i) /\ (i = 1 \/ text[i - 1] \in SpaceChars)
       THEN articles_kept(text, i + 3, prot)
  ELSE IF StartsAt(text, S("the "), i) /\ (i = 1 \/ text[i - 1] \in SpaceChars)
       THEN articles_kept(text, i + 4, prot)
  ELSE <<i>> \o articles_kept(text, i + 1, prot)

\* remove_articles eliding nothing.
remove_articles_none(t) == t

remove_articles(t) == Keep(t, articles_kept(t.text, 1, ProtectedSet(t.text)))

\* A case adjustment that capitalizes only for a token with a capital
\* followed by lowercase.
CaseAdjusted_titled(token, replacement) ==
  IF IsLower(token) THEN Lower(replacement)
  ELSE IF IsUpper(token) THEN Upper(replacement)
  ELSE IF token = Capitalize(token) THEN Capitalize(replacement)
  ELSE replacement

\* The replacement in the case pattern of the matched token.
CaseAdjusted(token, replacement) ==
  IF IsLower(token) THEN Lower(replacement)
  ELSE IF IsUpper(token) THEN Upper(replacement)
  ELSE IF token[1] \in UpperSet THEN Capitalize(replacement)
  ELSE replacement

\* One match of replace_common_words, on the text as the matches to its right
\* have left it.
replace_word_match(t, span, replacement) ==
  LET token == Slice(t.text, span[1], span[2])
  IN  IF Protected(t.text, span[1]) THEN t
      \* text[start:end][0] of an empty token
      ELSE IF ~IsLower(token) /\ ~IsUpper(token) /\ token = <<>> THEN IndexError(t)
      ELSE Splice(t, span[1], span[2], CaseAdjusted(token, replacement))

\* The matches of one entry, found on the text as the entry finds it, handled
\* from the last to the first; k matches are left.
RECURSIVE replace_word_matches(_, _, _, _)
replace_word_matches(t, matches, k, replacement) ==
  IF k = 0 THEN t
  ELSE replace_word_matches(
         Bind(t, LAMBDA u : replace_word_match(u, matches[k], replacement)),
         matches, k - 1, replacement)

\* for word, replacement in REPLACEMENTS.items(): the entries a .. b, one after
\* the other in dictionary order (the range is halved to keep the evaluation
\* shallow; the order of the entries is that of the loop).
RECURSIVE replace_words_range(_, _, _)
replace_words_range(t, a, b) ==
  IF t.raised \/ a > b THEN t
  ELSE IF a = b
       THEN LET matches == WordMatches(t.text, REPLACEMENTS[a][1])
            IN  replace_word_matches(t, matches, Len(matches), REPLACEMENTS[a][2])
       ELSE replace_words_range(replace_words_range(t, a, (a + b) \div 2), (a + b) \div 2 + 1, b)

replace_common_words(t) == replace_words_range(t, 1, Len(REPLACEMENTS))

replace_symbol_match(t, span, symbol) ==
  IF Protected(t.text, span[1]) THEN t ELSE Splice(t, span[1], span[2], symbol)

RECURSIVE replace_symbol_matches(_, _, _, _)
replace_symbol_matches(t, matches, k, symbol) ==
  IF k = 0 THEN t
  ELSE replace_symbol_matches(replace_symbol_match(t, matches[k], symbol), matches, k - 1, symbol)

\* for phrase, symbol in SYMBOLS.items(): the entries a .. b in dictionary
\* order.
RECURSIVE replace_symbols_range(_, _, _)
replace_symbols_range(t, a, b) ==
  IF t.raised \/ a > b THEN t
  ELSE IF a = b
       THEN LET matches == WordMatches(t.text, SYMBOLS[a][1])
            IN  replace_symbol_matches(t, matches, Len(matches), SYMBOLS[a][2])
       ELSE replace_symbols_range(replace_symbols_range(t, a, (a + b) \div 2), (a + b) \div 2 + 1, b)

replace_symbols(t) == replace_symbols_range(t, 1, Len(SYMBOLS))

\* re.finditer(r'\b\w+\b', text): the maximal runs of word characters.
RECURSIVE FindWords(_, _)
FindWords(text, pos) ==
  IF pos > Len(text) THEN <<>>
  ELSE IF text[pos] \in WordChars
       THEN <<<<pos, RunEnd(text, pos, WordChars)>>>> \o FindWords(text, RunEnd(text, pos, WordChars))
       ELSE FindWords(text, pos + 1)

Vowels == Range(S("aeiouAEIOU"))

ShortWord == 6

\* Vowel reduction that keeps the last vowel of each run instead of the first.
RECURSIVE vowels_kept_last(_, _, _)
vowels_kept_last(text, i, end) ==
  IF i >= end THEN <<>>
  ELSE IF LowerChar(text[i]) \notin Vowels
       THEN <<i>> \o vowels_kept_last(text, i + 1, end)
       ELSE <<RunEnd(text, i + 1, Vowels) - 1>>
              \o vowels_kept_last(text, RunEnd(text, i + 1, Vowels), end)

\* A reduction that drops one vowel of a run, the one after the first.
RECURSIVE vowels_kept_but_one(_, _, _)
vowels_kept_but_one(text, i, end) ==
  IF i >= end THEN <<>>
  ELSE IF LowerChar(text[i]) \notin Vowels \/ i + 1 >= end \/ LowerChar(text[i + 1]) \notin Vowels
       THEN <<i>> \o vowels_kept_but_one(text, i + 1, end)
       ELSE <<i>> \o vowels_kept_but_one(text, i + 2, end)


\* The positions of the word <<i, end>> that vowel reduction keeps: every
\* consonant, and the first vowel of each run of vowels.  A word ends where
\* a character that is no word character, so no vowel, stands: the run of
\* vowels ends inside the word.  Vowels holds both cases, so c.lower() is in
\* it exactly when c is.
RECURSIVE vowels_kept(_, _, _)
vowels_kept(text, i, end) ==
  IF i >= end THEN <<>>
  ELSE IF LowerChar(text[i]) \notin Vowels
       THEN <<i>> \o vowels_kept(text, i + 1, end)
       ELSE <<i>> \o vowels_kept(text, RunEnd(text, i + 1, Vowels), end)

\* A skip test that looks at every position of the word instead of its
\* start.
word_skipped_span(text, span, prot) ==
  \/ \E p \in span[1] .. span[2] - 1 : p \in prot
  \/ \E k \in DOMAIN NEVER_COMPRESS : NEVER_COMPRESS[k] = Lower(Slice(text, span[1], span[2]))
  \/ span[2] - span[1] <= ShortWord

\* Whether reduce_vowels leaves the word at span alone; prot is the set of
\* protected positions of text.
word_skipped(text, span, prot) ==
  \/ span[1] \in prot
  \/ \E k \in DOMAIN NEVER_COMPRESS : NEVER_COMPRESS[k] = Lower(Slice(text, span[1], span[2]))
  \/ span[2] - span[1] <= ShortWord

\* The word at span as reduce_vowels rewrites it.
reduced_word(t, span, prot) ==
  IF word_skipped(t.text, span, prot)
  THEN Keep(t, [k \in 1 .. span[2] - span[1] |-> span[1] + k - 1])
  ELSE Keep(t, vowels_kept(t.text, span[1], span[2]))

\* result += text[last_end:start] + word, for the words from the k-th on.  The
\* words are found from left to right, so words.sort() leaves their order.
RECURSIVE rebuild(_, _, _, _, _)
rebuild(t, words, k, last_end, prot) ==
  IF k > Len(words)
  THEN Keep(t, [j \in 1 .. Len(t.text) + 1 - last_end |-> last_end + j - 1])
  ELSE LET gap == Keep(t, [j \in 1 .. words[k][1] - last_end |-> last_end + j - 1])
           word == reduced_word(t, words[k], prot)
           rest == rebuild(t, words, k + 1, words[k][2], prot)
       IN  [t EXCEPT !.text = gap.text \o word.text \o rest.text,
                     !.origin = gap.origin \o word.origin \o rest.origin]

reduce_vowels(t) == rebuild(t, FindWords(t.text, 1), 1, 1, ProtectedSet(t.text))

\* The stages of compress_document with the vowel reducer first.
compress_line_reducer_first(t) ==
  Bind(Bind(Bind(reduce_vowels(t), replace_common_words), remove_articles), replace_symbols)

\* The four stages compress_document applies to a line that is not code.
compress_line(t) ==
  Bind(Bind(Bind(replace_common_words(t), remove_articles), replace_symbols), reduce_vowels)

\* text.split('\n')
RECURSIVE Split(_, _)
Split(text, sep) ==
  LET i == RunEndNot(text, 1, {sep})
  IN  IF i > Len(text) THEN <<text>>
      ELSE <<Slice(text, 1, i)>> \o Split(Slice(text, i + 1, Len(text) + 1), sep)

\* A traced line as a piece of the document in which it starts after offset
\* characters.
Shift(t, offset) ==
  [t EXCEPT !.origin = [i \in 1 .. Len(t.origin) |-> IF t.origin[i] = 0 THEN 0 ELSE t.origin[i] + offset]]

\* ''.join(result): the lines put together without the line breaks.
RECURSIVE Join_unbroken(_, _, _, _)
Join_unbroken(result, lines, k, offset) ==
  IF k > Len(result) THEN Lit(<<>>)
  ELSE Cat(Shift(result[k], offset),
           Join_unbroken(result, lines, k + 1, offset + Len(lines[k]) + 1))

\* '\n'.join(result) from the k-th line on; lines are the lines of the
\* document, of which offset characters come before the k-th.
RECURSIVE Join(_, _, _, _)
Join(result, lines, k, offset) ==
  IF k > Len(result) THEN Lit(<<>>)
  ELSE IF k = Len(result) THEN Shift(result[k], offset)
  ELSE Cat(Cat(Shift(result[k], offset),
               [text |-> <<NL>>, origin |-> <<offset + Len(lines[k]) + 1>>, raised |-> FALSE]),
           Join(result, lines, k + 1, offset + Len(lines[k]) + 1))

\* The loop of compress_document with a fence line that does not flip
\* in_code_block.
RECURSIVE compress_lines_untoggled(_, _, _)
compress_lines_untoggled(lines, k, in_code_block) ==
  IF k > Len(lines) THEN [result |-> <<>>, raised |-> FALSE]
  ELSE IF StartsWith(lines[k], FENCE) \/ in_code_block
       THEN LET rest == compress_lines_untoggled(lines, k + 1, in_code_block)
            IN  [rest EXCEPT !.result = <<Traced(lines[k])>> \o @]
  ELSE LET compressed == compress_line(Traced(lines[k]))
       IN  IF compressed.raised THEN [result |-> <<>>, raised |-> TRUE]
           ELSE LET rest == compress_lines_untoggled(lines, k + 1, in_code_block)
                IN  [rest EXCEPT !.result = <<compressed>> \o @]

\* The loop of compress_document over the lines from the k-th on: the result
\* list, and whether a stage raised.
RECURSIVE compress_lines(_, _, _)
compress_lines(lines, k, in_code_block) ==
  IF k > Len(lines) THEN [result |-> <<>>, raised |-> FALSE]
  ELSE IF StartsWith(lines[k], FENCE)
       THEN LET rest == compress_lines(lines, k + 1, ~in_code_block)
            IN  [rest EXCEPT !.result = <<Traced(lines[k])>> \o @]
  ELSE IF in_code_block
       THEN LET rest == compress_lines(lines, k + 1, in_code_block)
            IN  [rest EXCEPT !.result = <<Traced(lines[k])>> \o @]
  ELSE LET compressed == compress_line(Traced(lines[k]))
       IN  IF compressed.raised THEN [result |-> <<>>, raised |-> TRUE]
           ELSE LET rest == compress_lines(lines, k + 1, in_code_block)
                IN  [rest EXCEPT !.result = <<compressed>> \o @]

compress_document(text) ==
  LET lines == Split(text, NL)
      r == compress_lines(lines, 1, FALSE)
  IN  IF r.raised THEN IndexError(Traced(text)) ELSE Join(r.result, lines, 1, 0)

\* ------------------------------------------------- decompress.py

\* The entries of EXPANSIONS whose key has n characters, in dictionary order.
ExpansionsOfLength(n) == SelectSeq(EXPANSIONS, LAMBDA e : Len(e[1]) = n)

LongestAbbreviation ==
  CHOOSE n \in {Len(EXPANSIONS[k][1]) : k \in DOMAIN EXPANSIONS} :
    \A k \in DOMAIN EXPANSIONS : Len(EXPANSIONS[k][1]) <= n

\* The entries whose key has at most n characters, longest keys first; sorted()
\* is stable, so keys of one length stay in dictionary order.
RECURSIVE SortedByLength(_)
SortedByLength(n) ==
  IF n = 0 THEN <<>> ELSE ExpansionsOfLength(n) \o SortedByLength(n - 1)

\* The entries of EXPANSIONS as the dictionary holds them, unsorted.
dictionary_order == EXPANSIONS

\* sorted(EXPANSIONS.items(), key=lambda x: len(x[0]), reverse=True)
sorted_expansions == SortedByLength(LongestAbbreviation)

\* re.sub of a pattern without groups by a text: the matches, found on the
\* text as it was, replaced from the last to the first; k are left.
RECURSIVE sub_matches(_, _, _, _)
sub_matches(t, matches, k, full) ==
  IF k = 0 THEN t
  ELSE sub_matches(Splice(t, matches[k][1], matches[k][2], full), matches, k - 1, full)

\* for abbrev, full in sorted_expansions: the entries a .. b in that order
\* (the range is halved to keep the evaluation shallow).
RECURSIVE expand_range(_, _, _)
expand_range(t, a, b) ==
  IF t.raised \/ a > b THEN t
  ELSE IF a = b
       THEN LET matches == WordMatches(t.text, sorted_expansions[a][1])
            IN  sub_matches(t, matches, Len(matches), sorted_expansions[a][2])
       ELSE expand_range(expand_range(t, a, (a + b) \div 2), (a + b) \div 2 + 1, b)

expand_abbreviations(t) == expand_range(t, 1, Len(sorted_expansions))

\* dict.get(key, default) on a table of pairs.
Get(table, key, default) ==
  LET hits == {k \in DOMAIN table : table[k][1] = key}
  IN  IF hits = {} THEN default ELSE table[CHOOSE k \in hits : TRUE][2]

expand_word(word) == Get(EXPANSIONS, Lower(word), word)

ARROW_SEPARATOR == <<" ", ARROW, " ">>

SYSTEM_KEYS == {S("auth"), S("db"), S("api"), S("cache"), S("queue")}

\* The two parts of value.split(' -> ') when the separator occurs once;
\* parts[n] of a shorter list raises.
SplitPart(value, n) ==
  LET seps == FindLiteral(value.text, ARROW_SEPARATOR, 1)
  IN  IF n > Len(seps) + 1 THEN IndexError(value)
      ELSE IF n = 1 THEN Sub(value, 1, IF seps = <<>> THEN Len(value.text) + 1 ELSE seps[1][1])
      ELSE Sub(value, seps[n - 1][2], IF n > Len(seps) THEN Len(value.text) + 1 ELSE seps[n][1])

\* A count of parts that is 2 whatever the value holds: the test
\* len(parts) == 2 left out.
SplitCount_two(value) == 2

SplitCount(value) == Len(FindLiteral(value.text, ARROW_SEPARATOR, 1)) + 1

\* expand_yaml_line on the groups of the match: key is a text, value a piece
\* of the line.
expand_yaml_line(key, value) ==
  IF key \in SYSTEM_KEYS
  THEN Cat(Lit(S("- The ") \o expand_word(key) \o S(" system uses ")), value)
  ELSE IF key = S("chk") THEN Cat(Lit(S("- Check if ")), value)
  ELSE IF key = S("run")
       THEN IF SplitCount(value) = 2
            THEN Cat(Cat(Cat(Lit(S("- Run ")), SplitPart(value, 1)), Lit(S(" to "))), SplitPart(value, 2))
            ELSE Cat(Lit(S("- Run ")), value)
  ELSE IF key = S("if")
       THEN IF SplitCount(value) = 2
            THEN Cat(Cat(Cat(Lit(S("- If ")), SplitPart(value, 1)), Lit(S(", then "))), SplitPart(value, 2))
            ELSE Cat(Lit(S("- If ")), value)
  ELSE Cat(Lit(S("- ") \o expand_word(key) \o S(": ")), value)

\* COMPRESSED_PATTERNS[0], r'^- (\w+): (.+)$' on a line (a line holds no
\* newline, so the match is the whole line or there is none).
expand_yaml_pattern(t) ==
  LET a == 3
      b == RunEnd(t.text, a, WordChars)
      c == b + 2
  IN  IF /\ StartsWith(t.text, S("- "))
         /\ b > a
         /\ StartsAt(t.text, S(": "), b)
         /\ c <= Len(t.text)
      THEN [expand_yaml_line(Slice(t.text, a, b), Sub(t, c, Len(t.text) + 1))
              EXCEPT !.raised = @ \/ t.raised]
      ELSE t

\* Whether r'(\w+)\s*->\s*(.+)' matches at position i of a line: a run of word
\* characters, white space, the arrow, and at least one character.
ArrowMatchAt(text, i) ==
  LET a == RunEnd(text, i, WordChars)
      b == RunEnd(text, a, SpaceChars)
  IN  a > i /\ b < Len(text) /\ text[b] = ARROW

\* COMPRESSED_PATTERNS[1]: the leftmost match runs to the end of the line, so
\* it is the only one.  \s* after the arrow takes the white space, and gives
\* one character back to (.+) when nothing else is left.
expand_arrow_pattern(t) ==
  LET starts == {i \in 1 .. Len(t.text) : ArrowMatchAt(t.text, i)}
  IN  IF starts = {} THEN t
      ELSE LET i == CHOOSE j \in starts : \A k \in starts : j <= k
               a == RunEnd(t.text, i, WordChars)
               b == RunEnd(t.text, a, SpaceChars)
               c == RunEnd(t.text, b + 1, SpaceChars)
               g == IF c <= Len(t.text) THEN c ELSE Len(t.text)
           IN  Cat(Cat(Sub(t, 1, a), Lit(S(" returns "))), Sub(t, g, Len(t.text) + 1))

\* The end of the match of r'(\w+)/(\w+)\.(\w+)' that starts at i, 0: none.
PathMatchEnd(text, i) ==
  LET a == RunEnd(text, i, WordChars)
      b == RunEnd(text, a + 1, WordChars)
      c == RunEnd(text, b + 1, WordChars)
  IN  IF /\ a > i /\ a <= Len(text) /\ text[a] = "/"
         /\ b > a + 1 /\ b <= Len(text) /\ text[b] = "."
         /\ c > b + 1
      THEN c ELSE 0

\* expand_path on the match that starts at i.
expand_path(t, i) ==
  LET a == RunEnd(t.text, i, WordChars)
      b == RunEnd(t.text, a + 1, WordChars)
      c == RunEnd(t.text, b + 1, WordChars)
  IN  Cat(Lit(expand_word(Slice(t.text, i, a)) \o S("/") \o expand_word(Slice(t.text, a + 1, b)) \o S(".")),
          Sub(t, b + 1, c))

\* COMPRESSED_PATTERNS[2]: every match replaced, scanning from pos.
RECURSIVE expand_path_pattern_from(_, _)
expand_path_pattern_from(t, pos) ==
  IF pos > Len(t.text) THEN Lit(<<>>)
  ELSE IF PathMatchEnd(t.text, pos) > 0
       THEN Cat(expand_path(t, pos), expand_path_pattern_from(t, PathMatchEnd(t.text, pos)))
       ELSE Cat(Sub(t, pos, pos + 1), expand_path_pattern_from(t, pos + 1))

expand_path_pattern(t) ==
  [expand_path_pattern_from(t, 1) EXCEPT !.raised = @ \/ t.raised]

\* for pattern, replacement in COMPRESSED_PATTERNS
pattern_expansions(t) == Bind(Bind(expand_yaml_pattern(t), expand_arrow_pattern), expand_path_pattern)

Consonants == Range(S("bcdfghjklmnpqrstvwxyz"))

\* [bcdfghjklmnpqrstvwxyz]{3,} under re.IGNORECASE somewhere in the word.
HasConsonantCluster(word) ==
  \E i \in 1 .. Len(word) - 2 :
    \A j \in i .. i + 2 : LowerChar(word[j]) \in Consonants

NoRestoration == <<"no restoration">>

\* restore_word_vowels guessing on a miss: the word comes back in lowercase.
restore_word_vowels_guessing(word) ==
  LET full == Get(known_restorations, Lower(word), NoRestoration)
  IN  IF full = NoRestoration THEN Lit(Lower(word))
      ELSE IF IsUpper(word) THEN Lit(Upper(full))
      ELSE IF word = <<>> THEN IndexError(Lit(word))
      ELSE IF word[1] \in UpperSet THEN Lit(Capitalize(full))
      ELSE Lit(full)

\* restore_word_vowels without the tests of the case of the word.
restore_word_vowels_verbatim(word) ==
  Lit(Get(known_restorations, Lower(word), word))

\* restore_word_vowels on the matched word; word[0] of an empty word raises.
restore_word_vowels(word) ==
  LET full == Get(known_restorations, Lower(word), NoRestoration)
  IN  IF full = NoRestoration THEN Lit(word)
      ELSE IF IsUpper(word) THEN Lit(Upper(full))
      ELSE IF word = <<>> THEN IndexError(Lit(word))
      ELSE IF word[1] \in UpperSet THEN Lit(Capitalize(full))
      ELSE Lit(full)

\* The words from the k-th on, each replaced when the pattern
\* r'\b(\w*[bcdfghjklmnpqrstvwxyz]{3,}\w*)\b' matches it: a match starts and
\* ends at a word boundary, so it is a whole word.
RECURSIVE restore_from(_, _, _, _)
restore_from(t, words, k, last_end) ==
  IF k > Len(words) THEN Sub(t, last_end, Len(t.text) + 1)
  ELSE LET word == Slice(t.text, words[k][1], words[k][2])
       IN  Cat(Cat(Sub(t, last_end, words[k][1]),
                   IF HasConsonantCluster(word)
                   THEN restore_word_vowels(word)
                   ELSE Sub(t, words[k][1], words[k][2])),
               restore_from(t, words, k + 1, words[k][2]))

restore_vowels(t) == restore_from(t, FindWords(t.text, 1), 1, 1)

\* The stages decompress_document applies to a line that is not code.
decompress_line(t) == Bind(Bind(expand_abbreviations(t), pattern_expansions), restore_vowels)

\* The loop of decompress_document with a fence line that sets in_code_block
\* instead of flipping it.
RECURSIVE decompress_lines_set(_, _, _)
decompress_lines_set(lines, k, in_code_block) ==
  IF k > Len(lines) THEN [result |-> <<>>, raised |-> FALSE]
  ELSE IF StartsWith(lines[k], FENCE) \/ in_code_block
       THEN LET rest == decompress_lines_set(lines, k + 1, TRUE)
            IN  [rest EXCEPT !.result = <<Traced(lines[k])>> \o @]
  ELSE LET decompressed == decompress_line(Traced(lines[k]))
       IN  IF decompressed.raised THEN [result |-> <<>>, raised |-> TRUE]
           ELSE LET rest == decompress_lines_set(lines, k + 1, in_code_block)
                IN  [rest EXCEPT !.result = <<decompressed>> \o @]

\* The loop of decompress_document over the lines from the k-th on: the
\* result list, and whether a stage raised.
RECURSIVE decompress_lines(_, _, _)
decompress_lines(lines, k, in_code_block) ==
  IF k > Len(lines) THEN [result |-> <<>>, raised |-> FALSE]
  ELSE IF StartsWith(lines[k], FENCE)
       THEN LET rest == decompress_lines(lines, k + 1, ~in_code_block)
            IN  [rest EXCEPT !.result = <<Traced(lines[k])>> \o @]
  ELSE IF in_code_block
       THEN LET rest == decompress_lines(lines, k + 1, in_code_block)
            IN  [rest EXCEPT !.result = <<Traced(lines[k])>> \o @]
  ELSE LET decompressed == decompress_line(Traced(lines[k]))
       IN  IF decompressed.raised THEN [result |-> <<>>, raised |-> TRUE]
           ELSE LET rest == decompress_lines(lines, k + 1, in_code_block)
                IN  [rest EXCEPT !.result = <<decompressed>> \o @]

decompress_document(text) ==
  LET lines == Split(text, NL)
      r == decompress_lines(lines, 1, FALSE)
  IN  IF r.raised THEN IndexError(Traced(text)) ELSE Join(r.result, lines, 1, 0)

\* ------------------------------- decompress.py: the structured dev log

\* The values yaml.safe_load returns, by their Python type; a dict holds its
\* items as pairs in insertion order.  YamlError is a load that raises.
Str(text) == [type |-> "str", value |-> text]
PyInt(n) == [type |-> "int", number |-> n]
None == [type |-> "NoneType"]
List(items) == [type |-> "list", items |-> items]
Dict(pairs) == [type |-> "dict", pairs |-> pairs]
YamlError == [type |-> "YAMLError"]
NotParsed == [type |-> "not parsed"]

\* str(n) of an int that is not negative.
RECURSIVE Decimal(_)
Decimal(n) == IF n < 10 THEN <<Digits[n + 1]>> ELSE Decimal(n \div 10) \o <<Digits[(n % 10) + 1]>>

\* What an f-string makes of a scalar.
Format(v) ==
  IF v.type = "str" THEN v.value
  ELSE IF v.type = "int" THEN Decimal(v.number)
  ELSE S("None")

\* bool(v)
Truthy(v) ==
  IF v.type = "str" THEN v.value # <<>>
  ELSE IF v.type = "int" THEN v.number # 0
  ELSE IF v.type = "list" THEN v.items # <<>>
  ELSE IF v.type = "dict" THEN v.pairs # <<>>
  ELSE FALSE

\* Whether key in v and for x in v are defined: on an int or None they
\* raise TypeError.
IsContainer(v) == v.type \in {"str", "list", "dict"}

\* key in v, for v a container: a key of the dict, a substring of the str,
\* an item of the list.
Contains(key, v) ==
  IF v.type = "dict" THEN \E k \in DOMAIN v.pairs : v.pairs[k][1] = key
  ELSE IF v.type = "str" THEN FindLiteral(v.value, key, 1) # <<>>
  ELSE \E k \in DOMAIN v.items : v.items[k].type = "str" /\ v.items[k].value = key

\* v[key] of a dict that holds the key (on a str or a list, indexing by a
\* str raises TypeError).
Item(v, key) == v.pairs[CHOOSE k \in DOMAIN v.pairs : v.pairs[k][1] = key][2]

\* The values for x in v goes through, for v a container: the items of the
\* list, the keys of the dict, the characters of the str.
Iterate(v) ==
  IF v.type = "list" THEN v.items
  ELSE IF v.type = "dict" THEN [k \in DOMAIN v.pairs |-> Str(v.pairs[k][1])]
  ELSE [k \in DOMAIN v.value |-> Str(<<v.value[k]>>)]

\* What one block of the loop body appends to expanded, or that it raised.
Appended(lines) == [lines |-> lines, raised |-> FALSE]
TypeError == [lines |-> <<>>, raised |-> TRUE]

\* if 't' in entry: the heading of the entry
expand_timestamp(entry) ==
  IF ~IsContainer(entry) THEN TypeError
  ELSE IF ~Contains(S("t"), entry) THEN Appended(<<>>)
  ELSE IF entry.type # "dict" THEN TypeError
  ELSE Appended(<<S("## ") \o Format(Item(entry, S("t"))), <<>>>>)

\* if key in entry and entry[key]: the heading and one line for each item,
\* expanded (expand_abbreviations raises on what is no str)
expand_items(entry, key, heading) ==
  IF ~IsContainer(entry) THEN TypeError
  ELSE IF ~Contains(key, entry) THEN Appended(<<>>)
  ELSE IF entry.type # "dict" THEN TypeError
  ELSE IF ~Truthy(Item(entry, key)) THEN Appended(<<>>)
  ELSE IF ~IsContainer(Item(entry, key)) THEN TypeError
  ELSE LET items == Iterate(Item(entry, key))
       IN  IF \E k \in DOMAIN items : items[k].type # "str" THEN TypeError
           ELSE Appended(<<heading>>
                           \o [k \in DOMAIN items |-> S("- ") \o expand_abbreviations(Traced(items[k].value)).text]
                           \o <<<<>>>>)

\* if 'next' in entry and entry['next']: the heading and the line, expanded
expand_next(entry) ==
  IF ~IsContainer(entry) THEN TypeError
  ELSE IF ~Contains(S("next"), entry) THEN Appended(<<>>)
  ELSE IF entry.type # "dict" THEN TypeError
  ELSE IF ~Truthy(Item(entry, S("next"))) THEN Appended(<<>>)
  ELSE IF Item(entry, S("next")).type # "str" THEN TypeError
  ELSE Appended(<<S("### Next Steps"),
                  S("- ") \o expand_abbreviations(Traced(Item(entry, S("next")).value)).text,
                  <<>>>>)

\* The body of the loop for one entry: an exception in a block leaves the
\* loop, and what was appended before is dropped with it.
expand_entry(entry) ==
  LET t == expand_timestamp(entry)
      changes == expand_items(entry, S("changes"), S("### What Changed"))
      issues == expand_items(entry, S("issues"), S("### Issues Encountered"))
      next == expand_next(entry)
  IN  IF t.raised \/ changes.raised \/ issues.raised \/ next.raised THEN TypeError
      ELSE Appended(t.lines \o changes.lines \o issues.lines \o next.lines \o <<S("---"), <<>>>>)

\* '\n'.join(lines)
RECURSIVE JoinLines(_)
JoinLines(lines) ==
  IF lines = <<>> THEN <<>>
  ELSE IF Len(lines) = 1 THEN lines[1]
  ELSE lines[1] \o <<NL>> \o JoinLines(Tail(lines))

\* The lines of the entries from the k-th on.
RECURSIVE expand_entries(_, _)
expand_entries(entries, k) ==
  IF k > Len(entries) THEN Appended(<<>>)
  ELSE LET first == expand_entry(entries[k])
           rest == expand_entries(entries, k + 1)
       IN  IF first.raised \/ rest.raised THEN TypeError
           ELSE Appended(first.lines \o rest.lines)

\* expand_dev_log_yaml(yaml_content), entries being what yaml.safe_load
\* makes of yaml_content; the bare except returns the content for every
\* exception of the try block.
expand_dev_log_yaml(yaml_content, entries) ==
  IF entries.type = "YAMLError" THEN Traced(yaml_content)
  ELSE IF entries.type # "list" THEN Traced(yaml_content)
  ELSE LET expanded == expand_entries(entries.items, 1)
       IN  IF expanded.raised THEN Traced(yaml_content)
           ELSE Lit(JoinLines(expanded.lines))

\* ------------------------------------------------------ rotate_dev_log.py

\* s.find(p, pos): the first position >= pos where p stands (0: nowhere).
Search(s, p, pos) ==
  LET found == {i \in pos .. Len(s) - Len(p) + 1 : StartsAt(s, p, i)}
  IN  IF found = {} THEN 0 ELSE CHOOSE i \in found : \A j \in found : i <= j

\* The last position in a .. b whose character is a newline (0: none).
RECURSIVE LastNewline(_, _, _)
LastNewline(s, a, b) ==
  IF b < a THEN 0 ELSE IF s[b] = NL THEN b ELSE LastNewline(s, a, b - 1)

\* Where \s*\n, matched at position p, ends (0: no match): the greedy \s*
\* takes the whole run of whitespace and gives back up to its last newline.
BlankLineEnd(s, p) ==
  LET newline == LastNewline(s, p, RunEnd(s, p, SpaceChars) - 1)
  IN  IF newline = 0 THEN 0 ELSE newline + 1

\* str.strip()
RECURSIVE StripEnd(_, _)
StripEnd(s, n) == IF n >= 1 /\ s[n] \in SpaceChars THEN StripEnd(s, n - 1) ELSE n
Strip(s) == SubSeq(s, RunEnd(s, 1, SpaceChars), StripEnd(s, Len(s)))

\* Where the first match of heading + r'\s*\n' from pos on starts and ends
\* (<<0, 0>>: no match).
RECURSIVE SearchHeading(_, _, _)
SearchHeading(content, heading, pos) ==
  LET at == Search(content, heading, pos)
  IN  IF at = 0 THEN <<0, 0>>
      ELSE IF BlankLineEnd(content, at + Len(heading)) > 0
           THEN <<at, BlankLineEnd(content, at + Len(heading))>>
           ELSE SearchHeading(content, heading, at + 1)

\* re.findall(r'### .*?(?=### |\Z)', text, re.DOTALL), the first match
\* starting at position at (0: there is none).
RECURSIVE findall_sessions(_, _)
findall_sessions(text, at) ==
  IF at = 0 THEN <<>>
  ELSE LET next == Search(text, S("### "), at + 4)
       IN  IF next = 0 THEN <<Slice(text, at, Len(text) + 1)>>
           ELSE <<Slice(text, at, next)>> \o findall_sessions(text, next)

\* extract_sessions(content); exited: sys.exit(1), there is no Development
\* History section.
extract_sessions(content) ==
  LET history_start == SearchHeading(content, S("## Development History"), 1)[2]
      next_section == Search(content, <<NL>> \o S("## "), history_start)
      history_content ==
        IF next_section > 0 THEN Slice(content, history_start, next_section)
        ELSE Slice(content, history_start, Len(content) + 1)
  IN  IF history_start = 0 THEN [exited |-> TRUE, sessions |-> <<>>]
      ELSE [exited |-> FALSE,
            sessions |-> findall_sessions(history_content, Search(history_content, S("### "), 1))]

\* Where the lazy (.*?) before \s*\n ends: the first position from p on at
\* which only blanks stand before the newline of the line (0: none).
RECURSIVE NameEnd(_, _)
NameEnd(content, p) ==
  IF p > Len(content) THEN 0
  ELSE IF BlankLineEnd(content, p) > 0 THEN p
  ELSE NameEnd(content, p + 1)

\* re.finditer(r'## (.*?)\s*\n(.*?)(?=\n## |\Z)', content, re.DOTALL) from
\* pos on, as (name, content) of each match, both stripped.
RECURSIVE finditer_sections(_, _)
finditer_sections(content, pos) ==
  LET at == Search(content, S("## "), pos)
      name_end == NameEnd(content, at + 3)
      body_start == BlankLineEnd(content, name_end)
      stop == Search(content, <<NL>> \o S("## "), body_start)
      body_end == IF stop = 0 THEN Len(content) + 1 ELSE stop
  IN  IF at = 0 \/ name_end = 0 THEN <<>>
      ELSE <<<<Strip(Slice(content, at + 3, name_end)), Strip(Slice(content, body_start, body_end))>>>>
             \o finditer_sections(content, body_end)

\* sections[section_name] = section_content, for the matches from the k-th
\* on: a name met again keeps its place and takes the new content.
RECURSIVE extract_sections_from(_, _, _)
extract_sections_from(matches, k, sections) ==
  IF k > Len(matches) THEN sections
  ELSE IF matches[k][1] = S("Development History")
       THEN extract_sections_from(matches, k + 1, sections)
  ELSE IF \E j \in DOMAIN sections : sections[j][1] = matches[k][1]
       THEN extract_sections_from(matches, k + 1,
              [j \in DOMAIN sections |->
                 IF sections[j][1] = matches[k][1] THEN matches[k] ELSE sections[j]])
  ELSE extract_sections_from(matches, k + 1, Append(sections, matches[k]))

extract_sections(content) == extract_sections_from(finditer_sections(content, 1), 1, <<>>)

\* \d{4}-\d{2}-\d{2} at position i of the text.
IsDateAt(text, i) ==
  /\ i + 9 <= Len(text)
  /\ \A k \in {0, 1, 2, 3, 5, 6, 8, 9} : text[i + k] \in DigitSet
  /\ text[i + 4] = "-" /\ text[i + 7] = "-"

\* The matches of r'### \d{4}-\d{2}-\d{2}' from pos on, as the positions of
\* their dates.
RECURSIVE FindDates(_, _)
FindDates(text, pos) ==
  LET at == Search(text, S("### "), pos)
  IN  IF at = 0 THEN <<>>
      ELSE IF IsDateAt(text, at + 4) THEN <<at + 4>> \o FindDates(text, at + 14)
      ELSE FindDates(text, at + 1)

\* The date of the session header, or "unknown-date".
session_date(session) ==
  LET dates == FindDates(session, 1)
  IN  IF dates = <<>> THEN S("unknown-date") ELSE Slice(session, dates[1], dates[1] + 10)

HexChars == Range(S("abcdef0123456789"))
NoCommit == <<"no commit">>

\* re.search(r'Commit: ([a-f0-9]+)', session) from pos on: the hash, or
\* NoCommit.
RECURSIVE commit_hash(_, _)
commit_hash(session, pos) ==
  LET at == Search(session, S("Commit: "), pos)
  IN  IF at = 0 THEN NoCommit
      ELSE IF at + 8 <= Len(session) /\ session[at + 8] \in HexChars
           THEN Slice(session, at + 8, RunEnd(session, at + 8, HexChars))
           ELSE commit_hash(session, at + 1)

\* The dates of the sessions in the order of their first session: the keys
\* of grouped_sessions.
RECURSIVE grouped_dates(_, _, _)
grouped_dates(sessions, k, dates) ==
  IF k > Len(sessions) THEN dates
  ELSE IF \E j \in DOMAIN dates : dates[j] = session_date(sessions[k])
       THEN grouped_dates(sessions, k + 1, dates)
  ELSE grouped_dates(sessions, k + 1, Append(dates, session_date(sessions[k])))

\* f.write(session.strip() + "\n\n") for each of the sessions.
RECURSIVE written_sessions(_)
written_sessions(sessions) ==
  IF sessions = <<>> THEN <<>>
  ELSE Strip(Head(sessions)) \o <<NL, NL>> \o written_sessions(Tail(sessions))

\* The session is taken to be in the archive file already: it has a commit
\* hash and the hash stands somewhere in the file.
already_archived(session, existing_content) ==
  /\ commit_hash(session, 1) # NoCommit
  /\ Search(existing_content, commit_hash(session, 1), 1) > 0

\* The archive file of a date after create_archive: appended to when it
\* exists, created with its title when it does not.
archive_file(archive, date, date_sessions) ==
  IF date \in DOMAIN archive
  THEN archive[date]
         \o written_sessions(SelectSeq(date_sessions,
                                       LAMBDA session : ~already_archived(session, archive[date])))
  ELSE S("# Archived Development Log - ") \o date \o <<NL, NL>> \o written_sessions(date_sessions)

\* create_archive(sessions, archive_dir, args): the files of the archive
\* directory after it, by date, and the dates it returns.
create_archive(sessions, keep, archive) ==
  LET older == SubSeq(sessions, keep + 1, Len(sessions))
      dates == grouped_dates(older, 1, <<>>)
  IN  [dates |-> dates,
       archive |->
         [date \in DOMAIN archive \cup Range(dates) |->
            IF date \in Range(dates)
            THEN archive_file(archive, date,
                              SelectSeq(older, LAMBDA session : session_date(session) = date))
            ELSE archive[date]]]

\* The order of str on dates and "unknown-date": by the code points of the
\* first characters that differ.
CodePoints == S("-0123456789abcdefghijklmnopqrstuvwxyz")
CodePoint(c) == CHOOSE k \in DOMAIN CodePoints : CodePoints[k] = c
RECURSIVE Before(_, _)
Before(a, b) ==
  IF b = <<>> THEN FALSE
  ELSE IF a = <<>> THEN TRUE
  ELSE IF Head(a) = Head(b) THEN Before(Tail(a), Tail(b))
  ELSE CodePoint(Head(a)) < CodePoint(Head(b))

\* sorted(archived_dates)
RECURSIVE sorted(_)
sorted(dates) ==
  IF dates = <<>> THEN <<>>
  ELSE LET least == CHOOSE k \in DOMAIN dates : \A j \in DOMAIN dates : ~Before(dates[j], dates[k])
       IN  <<dates[least]>> \o sorted([j \in 1 .. Len(dates) - 1 |->
                                         IF j < least THEN dates[j] ELSE dates[j + 1]])

\* The lines of the summary for the dates; the path of an archive file is
\* relative to the directory of the dev log (docs/archive, docs/dev_log.md).
RECURSIVE summary_lines(_, _)
summary_lines(dates, archive) ==
  IF dates = <<>> THEN <<>>
  ELSE S("- [") \o Head(dates) \o S("](archive/dev_log_") \o Head(dates) \o S(".md) - ")
         \o Decimal(IF Head(dates) \in DOMAIN archive
                    THEN Len(FindDates(archive[Head(dates)], 1)) ELSE 0)
         \o S(" sessions") \o <<NL>>
         \o summary_lines(Tail(dates), archive)

\* create_summary(archived_dates, archive_dir, args)
create_summary(archived_dates, archive) ==
  IF archived_dates = <<>> THEN <<>>
  ELSE <<NL>> \o S("### Archived Sessions") \o <<NL, NL>> \o summary_lines(sorted(archived_dates), archive)

\* new_content += f"## {section_name}\n\n{section_content}\n\n"
RECURSIVE written_sections(_)
written_sections(sections) ==
  IF sections = <<>> THEN <<>>
  ELSE S("## ") \o Head(sections)[1] \o <<NL, NL>> \o Head(sections)[2] \o <<NL, NL>>
         \o written_sections(Tail(sections))

\* update_dev_log(content, recent_sessions, summary, args): what it writes
\* to the dev log.
update_dev_log(content, recent_sessions, summary) ==
  S("# Development Log") \o <<NL, NL>>
    \o written_sections(extract_sections(content))
    \o S("## Development History") \o <<NL, NL>>
    \o written_sessions(recent_sessions)
    \o summary

\* Where the lazy (.*?) of r'Next:(.*?)($|\n\n)' and of
\* r'Issues:(.*?)($|Next:|\n\n)' ends: at the first position from p on
\* where one of the stops stands, where the text ends, or before the newline
\* that ends the text.
RECURSIVE LazyEnd(_, _, _)
LazyEnd(text, p, stops) ==
  IF p > Len(text) THEN p
  ELSE IF p = Len(text) /\ text[p] = NL THEN p
  ELSE IF \E stop \in stops : StartsAt(text, stop, p) THEN p
  ELSE LazyEnd(text, p + 1, stops)

\* The stripped group of the first match of the label in the session
\* (NoCommit: no match).
labelled(session, label, stops) ==
  LET at == Search(session, label, 1)
  IN  IF at = 0 THEN NoCommit
      ELSE Strip(Slice(session, at + Len(label), LazyEnd(session, at + Len(label), stops)))

\* The issues of the sessions that are neither empty nor "none" nor "n/a",
\* as the lines of the list.
RECURSIVE known_issues(_)
known_issues(sessions) ==
  IF sessions = <<>> THEN <<>>
  ELSE LET issue == labelled(Head(sessions), S("Issues:"), {S("Next:"), <<NL, NL>>})
       IN  (IF issue = NoCommit \/ issue = <<>> \/ Lower(issue) \in {S("none"), S("n/a")}
            THEN <<>>
            ELSE S("  - ") \o issue \o <<NL>>)
             \o known_issues(Tail(sessions))

\* The current state update_current_state makes of the sessions.
current_state(sessions) ==
  LET last_commit == IF commit_hash(sessions[1], 1) = NoCommit THEN S("Unknown")
                     ELSE commit_hash(sessions[1], 1)
      next == labelled(sessions[1], S("Next:"), {<<NL, NL>>})
      next_tasks == IF next = NoCommit THEN <<>> ELSE next
      issues == known_issues(SubSeq(sessions, 1, IF Len(sessions) < 3 THEN Len(sessions) ELSE 3))
  IN  <<NL>> \o S("- **Last Stable Commit**: ") \o last_commit \o <<NL>>
        \o S("- **Next Tasks**: ") \o next_tasks \o <<NL>>
        \o (IF issues = <<>> THEN <<>> ELSE S("- **Known Issues**:") \o <<NL>> \o issues)

\* Where the two groups of r'(## Current State Summary\s*\n).*?(\n## )'
\* meet the text when the heading ends before position first and its run of
\* whitespace at position b: the end of the first group and the start of
\* the second (<<0, 0>>: no match).  The greedy \s* gives back one newline
\* after the other until a second group follows.
RECURSIVE state_groups(_, _, _)
state_groups(content, first, b) ==
  LET newline == LastNewline(content, first, b)
      stop == Search(content, <<NL>> \o S("## "), newline + 1)
  IN  IF newline = 0 THEN <<0, 0>>
      ELSE IF stop > 0 THEN <<newline + 1, stop>>
      ELSE state_groups(content, first, newline - 1)

\* re.sub(state_pattern, f"\\1{current_state}\n\\2", content,
\* flags=re.DOTALL) from pos on: each match keeps its two groups and takes
\* the state and a newline between them.  (The texts of the model hold no
\* backslash, which the replacement template would interpret.)
RECURSIVE sub_current_state(_, _, _)
sub_current_state(content, pos, state) ==
  LET heading == SearchHeading(content, S("## Current State Summary"), pos)
      first == heading[1] + Len(S("## Current State Summary"))
      groups == state_groups(content, first, RunEnd(content, first, SpaceChars) - 1)
  IN  IF heading[1] = 0 \/ groups[1] = 0 THEN Slice(content, pos, Len(content) + 1)
      ELSE Slice(content, pos, groups[1]) \o state \o <<NL>> \o <<NL>> \o S("## ")
             \o sub_current_state(content, groups[2] + 4, state)

\* update_current_state(args): what it leaves in the dev log.
update_current_state(content) ==
  LET sessions == extract_sessions(content).sessions
  IN  IF sessions = <<>> THEN content
      ELSE sub_current_state(content, 1, current_state(sessions))

\* main(): the dev log and the archive directory after a run with
\* --sessions keep.
main(content, keep, archive) ==
  LET sessions == extract_sessions(content)
      archived == create_archive(sessions.sessions, keep, archive)
      summary == create_summary(archived.dates, archived.archive)
      rotated == update_dev_log(content, SubSeq(sessions.sessions, 1, keep), summary)
  IN  IF sessions.exited THEN [exited |-> TRUE, dev_log |-> content, archive |-> archive]
      ELSE IF Len(sessions.sessions) > keep
      THEN [exited |-> extract_sessions(rotated).exited,
            dev_log |-> update_current_state(rotated), archive |-> archived.archive]
      ELSE [exited |-> FALSE, dev_log |-> update_current_state(content), archive |-> archive]

\* ------------------------------------------------------------- the inputs

\* Bounds of the inputs: a line is the concatenation of at most MaxWords
\* tokens, a document has at most MaxLines lines.
MaxWords == 2
MaxLines == 3

\* What the variables hold where there is no text.
NoText == <<"no text">>

\* No substitution stage is under way.
Idle == [stage |-> "none"]

\* No rotation is modelled.
NoRotation == [runs |-> 0]

\* Tokens of the lines handed to the compression stages: a vocabulary term in
\* three casings and embedded in a longer word, an article that is also a
\* never-compress word, a never-compress word that ends like an article, a
\* word that runs into a preserve phrase, a word of vowel runs, the head of a
\* URL and an inline fence marker.
CompressTokens ==
  << S("function"), S("Function "), S("unfunctional"), S("the "), S("java "),
     S("reimport "), S("queueing"), S("x.io/"), FENCE >>

\* Tokens of the lines handed to remove_articles alone: the three articles,
\* an article with a capital, a word that ends like an article, a fence
\* marker followed by a space and a letter.
ArticleTokens ==
  << S("a "), S("an "), S("the "), S("The "), S("java "), FENCE \o S(" "), S("x") >>

\* Tokens of the lines handed to replace_common_words alone: a vocabulary
\* term in lowercase, in uppercase, capitalized and in two mixed casings, a
\* term with capitals in its abbreviation in two mixed casings, and a
\* letter.
CasingTokens ==
  << S("function "), S("FUNCTION "), S("Function "), S("FUnction "), S("fUNCTION "),
     S("mCP "), S("Mcp "), S("x") >>

\* Tokens of the lines handed to the substitution stages entry by entry: a
\* vocabulary term, the same with a capital, a symbol phrase and a letter.
SubstitutionTokens == << S("function "), S("Function "), S("equal to "), S("x ") >>

\* Tokens of the lines handed to the decompression stages: an abbreviation,
\* an abbreviation and a longer one it is a prefix of, the head of a URL, a
\* space, two vowel-reduced words, an arrow and the head of a YAML line.
DecompressTokens ==
  << S("fn"), S("w/"), S("w/o"), S("x.io/"), S(" "), S("prjct"), S("Tst"),
     <<" ", ARROW, " ">>, S("- run: ") >>

\* The lines handed to replace_symbols alone: every phrase of the symbol map
\* in lowercase, in uppercase and capitalized, alone and with a word before
\* it, after it or on both sides.
SymbolLines ==
  {before \o phrase \o after :
     before \in {<<>>, S("x ")}, after \in {<<>>, S(" y")},
     phrase \in UNION {{Lower(SYMBOLS[k][1]), Upper(SYMBOLS[k][1]), Capitalize(SYMBOLS[k][1])} :
                         k \in DOMAIN SYMBOLS}}

\* The lines of the form "- key: value" handed to the decompression: the
\* five system-name keys, one of them with a capital, the keys with a
\* template of their own, an abbreviation and a key that is none of these;
\* values that the stages leave alone and values that they rewrite.
YamlKeys ==
  {S("auth"), S("db"), S("api"), S("cache"), S("queue"), S("Cache"),
   S("chk"), S("run"), S("if"), S("fn"), S("zzz")}
YamlValues ==
  {S("x"), S("jwt tokens"), S("fn"), S("prjct"), <<"a", " ", ARROW, " ", "b">>, S("x.io/db")}
YamlLines == {S("- ") \o key \o S(": ") \o value : key \in YamlKeys, value \in YamlValues}

\* Tokens of the lines handed to restore_vowels alone: a key of the
\* restoration dictionary in four casings, a key without three consonants
\* in a row in two casings, a letter and a space.
RestoreTokens ==
  << S("prjct"), S("PRJCT "), S("Prjct"), S("pRJCT "), S("del"), S("Del "), S("x"), S(" ") >>

\* Tokens of the lines handed to reduce_vowels twice: words with runs of
\* vowels, alone, running into a preserve phrase, holding one and before
\* one, a URL with such a word in its path, a fence marker, an underscore
\* and a never-compress word.
ReduceTokens ==
  << S("queueing"), S("reimport "), S("xrequire("), S("aaERROR: "), S("x.io/queueing "), FENCE,
     S("_"), S("Reactionary "), S("java ") >>


\* Lines of the documents handed to the drivers: fence lines, a line that
\* compression changes, a line that decompression changes, and an empty line.
DocumentLines ==
  << FENCE, FENCE \o S("py"), S("the function"), S("fn x.io/fn"), <<>> >>

\* The concatenations of at most n of the tokens.
RECURSIVE Concats(_, _)
Concats(tokens, n) ==
  IF n = 0 THEN {<<>>}
  ELSE LET shorter == Concats(tokens, n - 1)
       IN  shorter \cup {s \o tokens[k] : s \in shorter, k \in DOMAIN tokens}

\* The documents of at most n of the lines.
RECURSIVE Documents(_, _)
Documents(lines, n) ==
  IF n = 1 THEN Range(lines)
  ELSE LET shorter == Documents(lines, n - 1)
       IN  shorter \cup {d \o <<NL>> \o lines[k] : d \in shorter, k \in DOMAIN lines}

\* The lines with arrows handed to the decompression: a word, nothing or the
\* head of a "run" line, followed by at most MaxArrows arrows, each with
\* white space around it and a word after it, bare with a word after it, or
\* with white space alone.
MaxArrows == 2
ArrowHeads == {S("fn"), <<>>, S("- run: a")}
ArrowTails == << <<" ", ARROW, " ", "x">>, <<ARROW, "y">>, <<" ", ARROW, " ">> >>
ArrowLines == {head \o tail : head \in ArrowHeads, tail \in Concats(ArrowTails, MaxArrows)}

CompressLines == Concats(CompressTokens, MaxWords)
DecompressLines == Concats(DecompressTokens, MaxWords)

\* Every vocabulary term as a one-line document, in its three case variants.
TermDocuments ==
  UNION {{Lower(REPLACEMENTS[k][1]), Upper(REPLACEMENTS[k][1]), Capitalize(REPLACEMENTS[k][1])} :
           k \in DOMAIN REPLACEMENTS}

AllDocuments == Documents(DocumentLines, MaxLines) \cup TermDocuments

\* The documents of the calls that run side by side: a fenced block, prose
\* and a fence that is never closed.
InterleavedDocuments ==
  { JoinLines(<<FENCE, S("the function"), FENCE>>),
    JoinLines(<<S("the function"), S("fn")>>),
    JoinLines(<<FENCE \o S("py"), S("fn")>>) }

\* The number of calls that run side by side.
MaxCalls == 2

\* The sessions of the dev logs handed to the rotation: a session with a
\* date, a commit, issues and next tasks, a session with a date and a commit
\* that is the head of another one, and a session without a date and
\* without a commit.
SessionTokens ==
  << S("### 2024-01-02 a") \o <<NL>> \o S("Commit: ab12") \o <<NL>> \o S("Issues: slow") \o <<NL>>
       \o S("Next: x") \o <<NL, NL>>,
     S("### 2024-01-01 b") \o <<NL>> \o S("Commit: ab1") \o <<NL, NL>>,
     S("### note") \o <<NL, NL>> >>

\* A dev log holds at most MaxSessions sessions, and the rotation runs at
\* most MaxRuns times on it.
MaxSessions == 3
MaxRuns == 2

\* The dev logs: the title, the current state, and the history with its
\* sessions, the most recent first.
DevLogs ==
  {S("# Development Log") \o <<NL, NL>> \o S("## Current State Summary") \o <<NL, NL>>
     \o S("old") \o <<NL, NL>> \o S("## Development History") \o <<NL, NL>> \o sessions :
       sessions \in Concats(SessionTokens, MaxSessions)}

\* The archive directory before the first run: empty, or with the file of a
\* date from an earlier rotation.
Archives ==
  { <<>>,
    (S("2024-01-01") :> (S("# Archived Development Log - 2024-01-01") \o <<NL, NL>>
                           \o S("### 2024-01-01 z") \o <<NL>> \o S("Commit: ab12") \o <<NL, NL>>)) }

\* The entries of the dev logs handed to expand_dev_log_yaml: records with
\* all, some and none of the keys, records with an item or a value of
\* another type under a key, and entries that are no records.
DevLogEntries ==
  << Dict(<< <<S("t"), Str(S("s1"))>>, <<S("changes"), List(<<Str(S("fn"))>>)>>,
             <<S("issues"), List(<<Str(S("w/o"))>>)>>, <<S("next"), Str(S("db"))>> >>),
     Dict(<< <<S("t"), PyInt(7)>> >>),
     Dict(<<>>),
     Dict(<< <<S("changes"), List(<<Str(S("fn")), PyInt(7)>>)>> >>),
     Dict(<< <<S("issues"), List(<<None>>)>> >>),
     Dict(<< <<S("next"), PyInt(7)>> >>),
     Dict(<< <<S("next"), PyInt(0)>> >>),
     Dict(<< <<S("next"), List(<<Str(S("fn"))>>)>> >>),
     Dict(<< <<S("changes"), Str(S("fn"))>> >>),
     Dict(<< <<S("changes"), PyInt(7)>> >>),
     Str(S("abc")),
     Str(S("test")),
     PyInt(7),
     None,
     List(<<Str(S("x"))>>),
     List(<<Str(S("t"))>>) >>

\* A dev log has at most MaxEntries entries.
MaxEntries == 2

\* The lists of at most n of the entries.
RECURSIVE EntryLists(_)
EntryLists(n) ==
  IF n = 0 THEN {<<>>}
  ELSE LET shorter == EntryLists(n - 1)
       IN  shorter \cup {l \o <<DevLogEntries[k]>> : l \in shorter, k \in DOMAIN DevLogEntries}

\* What yaml.safe_load returns or does on the dev logs: a list of entries,
\* a value that is no list, an error.
DevLogValues ==
  {List(l) : l \in EntryLists(MaxEntries)}
    \cup {DevLogEntries[1], Str(S("abc")), PyInt(7), None, YamlError}

\* A document in YAML's flow style that loads as the value; an unclosed
\* bracket where the load raises.
RECURSIVE Dump(_)
RECURSIVE DumpItems(_, _)
RECURSIVE DumpPairs(_, _)
Dump(v) ==
  IF v.type = "str" THEN <<"\"">> \o v.value \o <<"\"">>
  ELSE IF v.type = "int" THEN Decimal(v.number)
  ELSE IF v.type = "NoneType" THEN S("null")
  ELSE IF v.type = "list" THEN S("[") \o DumpItems(v.items, 1) \o S("]")
  ELSE IF v.type = "dict" THEN S("{") \o DumpPairs(v.pairs, 1) \o S("}")
  ELSE S("[")
DumpItems(items, k) ==
  IF k > Len(items) THEN <<>>
  ELSE Dump(items[k]) \o (IF k < Len(items) THEN S(", ") ELSE <<>>) \o DumpItems(items, k + 1)
DumpPairs(pairs, k) ==
  IF k > Len(pairs) THEN <<>>
  ELSE <<"\"">> \o pairs[k][1] \o <<"\"">> \o S(": ") \o Dump(pairs[k][2])
         \o (IF k < Len(pairs) THEN S(", ") ELSE <<>>) \o DumpPairs(pairs, k + 1)

IsLine(text) == NL \notin Range(text)

\* ------------------------------------------------------ the state machine

Start(inputs) ==
  /\ input \in inputs
  /\ op = "none"
  /\ output = <<>>
  /\ origin = <<>>
  /\ raised = FALSE
  /\ original = NoText
  /\ parsed = NotParsed
  /\ calls = <<>>
  /\ substitution = Idle
  /\ rotation = NoRotation

\* The function named name returns (or raises) r on the input.
Return(name, r) ==
  /\ op' = name
  /\ output' = IF r.raised THEN <<>> ELSE r.text
  /\ origin' = IF r.raised THEN <<>> ELSE r.origin
  /\ raised' = r.raised
  /\ UNCHANGED <<input, original, parsed, calls, substitution, rotation>>

ReplaceCommonWords ==
  op = "none" /\ IsLine(input) /\ Return("replace_common_words", replace_common_words(Traced(input)))

RemoveArticles ==
  op = "none" /\ IsLine(input) /\ Return("remove_articles", remove_articles(Traced(input)))

ReplaceSymbols ==
  op = "none" /\ IsLine(input) /\ Return("replace_symbols", replace_symbols(Traced(input)))

ReduceVowels ==
  op = "none" /\ IsLine(input) /\ Return("reduce_vowels", reduce_vowels(Traced(input)))

CompressDocument ==
  op = "none" /\ Return("compress_document", compress_document(input))

ExpandAbbreviations ==
  op = "none" /\ IsLine(input) /\ Return("expand_abbreviations", expand_abbreviations(Traced(input)))

PatternExpansions ==
  op = "none" /\ IsLine(input) /\ Return("pattern_expansions", pattern_expansions(Traced(input)))

RestoreVowels ==
  op = "none" /\ IsLine(input) /\ Return("restore_vowels", restore_vowels(Traced(input)))

DecompressDocument ==
  op = "none" /\ Return("decompress_document", decompress_document(input))

\* decompress_file hands a dev log to expand_dev_log_yaml.
ExpandDevLogYaml ==
  /\ op = "none"
  /\ parsed.type # "not parsed"
  /\ Return("expand_dev_log_yaml", expand_dev_log_yaml(input, parsed))

\* compress_file writes the compressed document, which is then the input of
\* a later run.
WriteCompressed ==
  /\ op = "compress_document"
  /\ ~raised
  /\ original = NoText
  /\ input' = output
  /\ original' = input
  /\ op' = "none"
  /\ output' = <<>>
  /\ origin' = <<>>
  /\ UNCHANGED <<raised, parsed, calls, substitution, rotation>>

\* The compression stages and the driver on lines.
InitCompress == Start(CompressLines)
NextCompress ==
  \/ ReplaceCommonWords
  \/ RemoveArticles
  \/ ReplaceSymbols
  \/ ReduceVowels
  \/ CompressDocument
SpecCompress == InitCompress /\ [][NextCompress]_vars

\* The decompression stages and the driver on lines.
InitDecompress == Start(DecompressLines)
NextDecompress ==
  \/ ExpandAbbreviations
  \/ PatternExpansions
  \/ RestoreVowels
  \/ DecompressDocument
SpecDecompress == InitDecompress /\ [][NextDecompress]_vars

\* The drivers on documents, and the round trip.
InitDocument == Start(AllDocuments)
NextDocument ==
  \/ CompressDocument
  \/ DecompressDocument
  \/ WriteCompressed
SpecDocument == InitDocument /\ [][NextDocument]_vars

\* A call of a driver on entry: the locals of compress_document and of
\* decompress_document, and where the loop stands.
Call(name, text) ==
  [name |-> name, text |-> text, lines |-> Split(text, NL), k |-> 1,
   in_code_block |-> FALSE, result |-> <<>>, raised |-> FALSE,
   returned |-> FALSE, output |-> <<>>]

\* The in_code_block a call reads when it is one variable of the module.
in_code_block_global(cs, c) == \E d \in DOMAIN cs : cs[d].in_code_block

\* The in_code_block call c reads: its own local.
in_code_block_local(cs, c) == cs[c].in_code_block

\* One pass of call c through the body of the loop over the lines.
LoopBody(c) ==
  /\ c \in DOMAIN calls
  /\ ~calls[c].returned
  /\ calls[c].k <= Len(calls[c].lines)
  /\ LET call == calls[c]
         line == call.lines[call.k]
         stages == IF call.name = "compress_document"
                   THEN compress_line(Traced(line))
                   ELSE decompress_line(Traced(line))
     IN  calls' =
           [calls EXCEPT ![c] =
              IF StartsWith(line, FENCE)
              THEN [call EXCEPT !.in_code_block = ~in_code_block_local(calls, c),
                                !.result = Append(@, line), !.k = @ + 1]
              ELSE IF in_code_block_local(calls, c)
              THEN [call EXCEPT !.result = Append(@, line), !.k = @ + 1]
              ELSE IF stages.raised
              THEN [call EXCEPT !.raised = TRUE, !.returned = TRUE]
              ELSE [call EXCEPT !.result = Append(@, stages.text), !.k = @ + 1]]
  /\ UNCHANGED <<input, op, output, origin, raised, original, parsed, substitution, rotation>>

\* Call c leaves the loop and returns the joined lines.
JoinResult(c) ==
  /\ c \in DOMAIN calls
  /\ ~calls[c].returned
  /\ calls[c].k > Len(calls[c].lines)
  /\ calls' = [calls EXCEPT ![c].returned = TRUE, ![c].output = JoinLines(calls[c].result)]
  /\ UNCHANGED <<input, op, output, origin, raised, original, parsed, substitution, rotation>>

\* The table a substitution stage goes through, as (key, replacement).
Table(stage) == IF stage = "replace_common_words" THEN REPLACEMENTS ELSE SYMBOLS

\* The matches handled in the order they were found.
in_order(matches) == matches

\* reversed(matches)
reversed(matches) == [j \in DOMAIN matches |-> matches[Len(matches) + 1 - j]]

\* for word, replacement in REPLACEMENTS.items(): the next entry, and
\* matches = list(re.finditer(pattern, text, re.IGNORECASE)) on the text as
\* it stands, which is the snapshot the offsets of the matches refer to.
FindMatches ==
  /\ substitution.stage # "none"
  /\ ~substitution.text.raised
  /\ substitution.j > Len(substitution.matches)
  /\ substitution.entry < Len(Table(substitution.stage))
  /\ substitution' =
       [substitution EXCEPT
          !.entry = @ + 1,
          !.snapshot = substitution.text.text,
          !.matches = reversed(WordMatches(substitution.text.text,
                                           Table(substitution.stage)[substitution.entry + 1][1])),
          !.j = 1]
  /\ UNCHANGED <<input, op, output, origin, raised, original, parsed, calls, rotation>>

\* for match in reversed(matches): the body of the loop for the next match.
HandleMatch ==
  /\ substitution.stage # "none"
  /\ ~substitution.text.raised
  /\ substitution.j <= Len(substitution.matches)
  /\ LET match == substitution.matches[substitution.j]
         replacement == Table(substitution.stage)[substitution.entry][2]
     IN  substitution' =
           [substitution EXCEPT
              !.text = IF substitution.stage = "replace_common_words"
                       THEN replace_word_match(@, match, replacement)
                       ELSE replace_symbol_match(@, match, replacement),
              !.j = @ + 1]
  /\ UNCHANGED <<input, op, output, origin, raised, original, parsed, calls, rotation>>

\* return text, after the last entry (or the exception leaves the stage).
ReturnText ==
  /\ substitution.stage # "none"
  /\ \/ substitution.text.raised
     \/ /\ substitution.j > Len(substitution.matches)
        /\ substitution.entry = Len(Table(substitution.stage))
  /\ op' = substitution.stage
  /\ output' = IF substitution.text.raised THEN <<>> ELSE substitution.text.text
  /\ origin' = IF substitution.text.raised THEN <<>> ELSE substitution.text.origin
  /\ raised' = substitution.text.raised
  /\ substitution' = Idle
  /\ UNCHANGED <<input, original, parsed, calls, rotation>>

\* The substitution stages, entry by entry and match by match.
InitSubstitution ==
  /\ input \in Concats(SubstitutionTokens, MaxWords)
  /\ substitution \in {[stage |-> stage, text |-> Traced(input), entry |-> 0,
                         snapshot |-> input, matches |-> <<>>, j |-> 1] :
                          stage \in {"replace_common_words", "replace_symbols"}}
  /\ op = "none"
  /\ output = <<>>
  /\ origin = <<>>
  /\ raised = FALSE
  /\ original = NoText
  /\ parsed = NotParsed
  /\ calls = <<>>
  /\ rotation = NoRotation
NextSubstitution == FindMatches \/ HandleMatch \/ ReturnText
SpecSubstitution == InitSubstitution /\ [][NextSubstitution]_vars

\* replace_symbols on lines of symbol phrases.
InitSymbols == Start(SymbolLines)
NextSymbols == ReplaceSymbols
SpecSymbols == InitSymbols /\ [][NextSymbols]_vars

\* The decompression on lines of the form "- key: value".
InitYaml == Start(YamlLines)
NextYaml ==
  \/ ExpandAbbreviations
  \/ PatternExpansions
  \/ DecompressDocument
SpecYaml == InitYaml /\ [][NextYaml]_vars

\* The decompression on lines with arrows.
InitArrows == Start(ArrowLines)
NextArrows ==
  \/ ExpandAbbreviations
  \/ PatternExpansions
  \/ RestoreVowels
  \/ DecompressDocument
SpecArrows == InitArrows /\ [][NextArrows]_vars

\* restore_vowels on lines of dictionary keys in several casings.
InitRestore == Start(Concats(RestoreTokens, MaxWords))
NextRestore ==
  \/ RestoreVowels
  \/ DecompressDocument
SpecRestore == InitRestore /\ [][NextRestore]_vars

\* reduce_vowels is handed the line it returned.
ReduceVowelsAgain ==
  /\ op = "reduce_vowels"
  /\ ~raised
  /\ original = NoText
  /\ input' = output
  /\ original' = input
  /\ op' = "none"
  /\ output' = <<>>
  /\ origin' = <<>>
  /\ UNCHANGED <<raised, parsed, calls, substitution, rotation>>

\* reduce_vowels on a line and on the line it returns.
InitReduce == Start(Concats(ReduceTokens, MaxWords))
NextReduce ==
  \/ ReduceVowels
  \/ ReduceVowelsAgain
SpecReduce == InitReduce /\ [][NextReduce]_vars


\* replace_common_words on lines of terms in several casings.
InitCasing == Start(Concats(CasingTokens, MaxWords))
NextCasing == ReplaceCommonWords
SpecCasing == InitCasing /\ [][NextCasing]_vars

\* remove_articles on lines of articles.
InitArticles == Start(Concats(ArticleTokens, MaxWords))
NextArticles == RemoveArticles
SpecArticles == InitArticles /\ [][NextArticles]_vars

\* Calls of the drivers on several documents, their steps interleaved.
InitInterleaved ==
  /\ calls \in [1 .. MaxCalls -> {Call(name, text) : name \in {"compress_document", "decompress_document"},
                                                     text \in InterleavedDocuments}]
  /\ input = <<>>
  /\ op = "none"
  /\ output = <<>>
  /\ origin = <<>>
  /\ raised = FALSE
  /\ original = NoText
  /\ parsed = NotParsed
  /\ substitution = Idle
  /\ rotation = NoRotation
NextInterleaved ==
  \/ \E c \in 1 .. MaxCalls : LoopBody(c)
  \/ \E c \in 1 .. MaxCalls : JoinResult(c)
SpecInterleaved == InitInterleaved /\ [][NextInterleaved]_vars

\* The structured-log expander on dev logs.
InitDevLog ==
  /\ parsed \in DevLogValues
  /\ input = Dump(parsed)
  /\ op = "none"
  /\ output = <<>>
  /\ origin = <<>>
  /\ raised = FALSE
  /\ original = NoText
  /\ calls = <<>>
  /\ substitution = Idle
  /\ rotation = NoRotation
NextDevLog == ExpandDevLogYaml
SpecDevLog == InitDevLog /\ [][NextDevLog]_vars

\* python rotate_dev_log.py --sessions N: a run of main on the files.
RotateDevLog ==
  /\ rotation.runs < MaxRuns
  /\ ~rotation.exited
  /\ LET run == main(rotation.dev_log, rotation.sessions, rotation.archive)
     IN  rotation' = [rotation EXCEPT !.before = rotation.dev_log,
                                      !.archive_before = rotation.archive,
                                      !.dev_log = run.dev_log,
                                      !.archive = run.archive,
                                      !.exited = run.exited,
                                      !.runs = @ + 1]
  /\ UNCHANGED <<input, op, output, origin, raised, original, parsed, calls, substitution>>

\* Runs of the rotation on dev logs.
InitRotation ==
  /\ rotation \in {[sessions |-> keep, dev_log |-> dev_log, archive |-> archive,
                     before |-> NoText, archive_before |-> <<>>, exited |-> FALSE, runs |-> 0] :
                      keep \in 1 .. 2, dev_log \in DevLogs, archive \in Archives}
  /\ input = <<>>
  /\ op = "none"
  /\ output = <<>>
  /\ origin = <<>>
  /\ raised = FALSE
  /\ original = NoText
  /\ parsed = NotParsed
  /\ calls = <<>>
  /\ substitution = Idle
NextRotation == RotateDevLog
SpecRotation == InitRotation /\ [][NextRotation]_vars

\* Every function on every input.
Init == Start(CompressLines \cup DecompressLines \cup AllDocuments)
Next ==
  \/ ReplaceCommonWords
  \/ RemoveArticles
  \/ ReplaceSymbols
  \/ ReduceVowels
  \/ CompressDocument
  \/ ExpandAbbreviations
  \/ PatternExpansions
  \/ RestoreVowels
  \/ DecompressDocument
  \/ WriteCompressed
Spec == Init /\ [][Next]_vars

\* ---------------------------------------------------------- the properties

Stages == {"replace_common_words", "remove_articles", "replace_symbols", "reduce_vowels"}
Drivers == {"compress_document", "decompress_document"}

\* The output holds the character at position p of the input, copied.
CopiedAt(p) == \E k \in DOMAIN output : origin[k] = p /\ output[k] = input[p]

\* The output holds the characters s .. e - 1 of the input, copied side by
\* side.
Copied(s, e) ==
  \E j \in 0 .. Len(output) - (e - s) :
    \A i \in 0 .. e - s - 1 : origin[j + 1 + i] = s + i /\ output[j + 1 + i] = input[s + i]

\* The output holds no character copied from s .. e - 1.
Deleted(s, e) == \A k \in DOMAIN output : origin[k] \notin s .. e - 1

\* The characters of the output copied from s .. e - 1, in their order.
KeptOf(s, e) ==
  LET kept == SelectSeq([k \in 1 .. Len(output) |-> k], LAMBDA k : origin[k] \in s .. e - 1)
  IN  [j \in 1 .. Len(kept) |-> output[kept[j]]]

\* The tokens of a text: its maximal runs of word characters, as spans.
Words(text) ==
  {<<s, RunEnd(text, s, WordChars)>> :
     s \in {i \in DOMAIN text : text[i] \in WordChars /\ (i = 1 \/ text[i - 1] \notin WordChars)}}

\* The places where the text holds the key, whatever the case.
Occurrences(text, key) ==
  LET low == Lower(text)
      lkey == Lower(key)
  IN  {s \in 1 .. Len(text) - Len(key) + 1 : StartsAt(low, lkey, s)}

\* The span <<s, e>> has no word character right before it and none right
\* after it.
Delimited(text, s, e) ==
  /\ s = 1 \/ text[s - 1] \notin WordChars
  /\ e > Len(text) \/ text[e] \notin WordChars

\* The lines of a document and its tagging by the fence lines: a fence line,
\* and a line with an odd number of fence lines before it.
FenceLine(lines, i) == StartsWith(lines[i], FENCE)
FencesBefore(lines, i) == Cardinality({j \in 1 .. i - 1 : FenceLine(lines, j)})
Between(lines, i) ==
  /\ ~FenceLine(lines, i)
  /\ FencesBefore(lines, i) % 2 = 1
  /\ \E j \in i + 1 .. Len(lines) : FenceLine(lines, j)
CodeLine(lines, i) == FenceLine(lines, i) \/ FencesBefore(lines, i) % 2 = 1

\* What the driver named name makes of a prose line.
Processed(name, line) ==
  IF name = "compress_document" THEN compress_line(Traced(line)).text
  ELSE decompress_line(Traced(line)).text

\* C1: in the output of compress_document and of decompress_document, every
\* line that starts with the fence marker and every line between an opening
\* fence line and its closing fence line stands at the same line index,
\* identical to the input line.
FenceInviolability ==
  op \in Drivers =>
    LET lines == Split(input, NL)
        result == Split(output, NL)
    IN  \A i \in DOMAIN lines :
          FenceLine(lines, i) \/ Between(lines, i) => i <= Len(result) /\ result[i] = lines[i]

\* C1 happens: compress_document has returned a document with a line between
\* two fence lines that the stages would have changed.
FencedLineKept ==
  /\ op = "compress_document"
  /\ \E i \in DOMAIN Split(input, NL) :
       /\ Between(Split(input, NL), i)
       /\ Processed(op, Split(input, NL)[i]) # Split(input, NL)[i]

\* The positions the claim C2 calls protected: inside an inline fence pair,
\* inside a URL pattern match, inside an occurrence of a preserve phrase.
SpanProtected(text) ==
  LET markers == code_markers(text, 1)
      phrases == PhraseSpans(text)
      urls == UrlSpans(text)
  IN  {pos \in 1 .. Len(text) :
         \/ MarkersOdd(markers, pos) /\ \E k \in DOMAIN markers : markers[k] >= pos
         \/ Covered(phrases, pos)
         \/ Covered(urls, pos)}

\* C2: no compression stage changes or deletes the character at a protected
\* position of its line, also when the replaced match or the reduced word
\* starts at an unprotected position and runs into the protected span.
ProtectionRespected ==
  op \in Stages => \A p \in SpanProtected(input) : CopiedAt(p)

\* The case pattern of a token.
CasePattern(token) ==
  IF IsLower(token) THEN "lowercase"
  ELSE IF IsUpper(token) THEN "UPPERCASE"
  ELSE IF token = Capitalize(token) THEN "Capitalized"
  ELSE "mixed"

\* C3: compressing a case variant of a vocabulary term and decompressing the
\* result yields a token with the case pattern of the variant.
CasePreserved ==
  op = "decompress_document" /\ original \in TermDocuments =>
    CasePattern(output) = CasePattern(original)

\* The occurrences of the key that word boundaries delimit on both sides, as
\* spans.
WholeOccurrences(text, key) ==
  {<<s, s + Len(key)>> : s \in {o \in Occurrences(text, key) : Delimited(text, o, o + Len(key))}}

\* The occurrences of the key with a word character right before or right
\* after: the key embedded in a longer token.
EmbeddedOccurrences(text, key) ==
  {<<s, s + Len(key)>> : s \in {o \in Occurrences(text, key) : ~Delimited(text, o, o + Len(key))}}

WholeTerms(text) == UNION {WholeOccurrences(text, REPLACEMENTS[k][1]) : k \in DOMAIN REPLACEMENTS}

\* C4: replace_common_words alters a character only inside an occurrence of a
\* vocabulary term that word boundaries delimit on both sides; a token that
\* holds no such occurrence, like "unfunctional", is copied as it is.
WordBoundarySafety ==
  op = "replace_common_words" =>
    LET whole == WholeTerms(input)
    IN  /\ \A p \in DOMAIN input : ~Covered(whole, p) => CopiedAt(p)
        /\ \A w \in Words(input) :
             (\A p \in w[1] .. w[2] - 1 : ~Covered(whole, p)) => Copied(w[1], w[2])

\* C4 happens: replace_common_words has replaced a whole-word occurrence of
\* "function" in a line that also holds "function" inside a longer token.
EmbeddedTermKept ==
  /\ op = "replace_common_words"
  /\ EmbeddedOccurrences(input, S("function")) # {}
  /\ \E o \in WholeOccurrences(input, S("function")) : Deleted(o[1], o[2])

\* The unprotected tokens of the line that are the word.
UnprotectedWords(text, word) ==
  {w \in Words(text) : Slice(text, w[1], w[2]) = word /\ w[1] \notin ProtectedSet(text)}

\* C5 as the specification words it: vowel reduction makes "queing" of the
\* unprotected word "queueing".
QueueingReducedToQueing ==
  op = "reduce_vowels" =>
    \A w \in UnprotectedWords(input, S("queueing")) : KeptOf(w[1], w[2]) = S("queing")

\* C5, amended: vowel reduction makes "qung" of the unprotected word
\* "queueing": of its only run of vowels, "ueuei", the first is kept and the
\* rest dropped, and the consonants q, n and g are untouched.
QueueingReducedToQung ==
  op = "reduce_vowels" =>
    \A w \in UnprotectedWords(input, S("queueing")) :
      /\ KeptOf(w[1], w[2]) = S("qung")
      /\ \A p \in w[1] .. w[2] - 1 : input[p] \notin Vowels => CopiedAt(p)

\* C5 happens: reduce_vowels has returned on a line that holds the
\* unprotected word "queueing" after other text.
QueueingReduced ==
  /\ op = "reduce_vowels"
  /\ \E w \in UnprotectedWords(input, S("queueing")) : w[1] > 1

\* The tokens of the line whose lowercase form is in the never-compress set.
NeverCompressWords(text) ==
  {w \in Words(text) : Lower(Slice(text, w[1], w[2])) \in Range(NEVER_COMPRESS)}

\* The token is the article "the" where remove_articles elides it: not
\* protected, at the start of the line or after white space, before a space.
ElidedThe(text, w) ==
  /\ Slice(text, w[1], w[2]) = S("the")
  /\ w[1] \notin ProtectedSet(text)
  /\ w[1] = 1 \/ text[w[1] - 1] \in SpaceChars
  /\ w[2] <= Len(text) /\ text[w[2]] = " "

AbbreviationMatches(text, abbrev) ==
  {<<s, s + Len(abbrev)>> :
     s \in {o \in Occurrences(text, abbrev) : Boundary(text, o) /\ Boundary(text, o + Len(abbrev))}}

\* The output holds the full form, written by the stage, in the place of the
\* span <<s, e>> of the input.
ExpandedTo(s, e, full) ==
  /\ Deleted(s, e)
  /\ \E j \in 1 .. Len(output) - Len(full) + 1 :
       /\ StartsAt(output, full, j)
       /\ \A k \in j .. j + Len(full) - 1 : origin[k] = 0
       /\ \A k \in 1 .. j - 1 : origin[k] < s
       /\ \A k \in j + Len(full) .. Len(output) : origin[k] = 0 \/ origin[k] >= e

\* The entries with an abbreviation that is a prefix of a longer one.
PrefixPairs ==
  {<<a, b>> \in (DOMAIN EXPANSIONS) \X (DOMAIN EXPANSIONS) :
     /\ Len(EXPANSIONS[a][1]) < Len(EXPANSIONS[b][1])
     /\ StartsWith(EXPANSIONS[b][1], EXPANSIONS[a][1])}

\* C7: expand_abbreviations applies the entries by descending length of the
\* abbreviation, so an abbreviation that has a shorter one as a prefix, like
\* "w/o" and "w/", is expanded to its own full form, and nothing of it is
\* left after an expansion of the shorter one.
LongestMatchFirst ==
  /\ \A k \in 1 .. Len(sorted_expansions) - 1 :
       Len(sorted_expansions[k][1]) >= Len(sorted_expansions[k + 1][1])
  /\ op = "expand_abbreviations" =>
       \A pair \in PrefixPairs :
         \A m \in AbbreviationMatches(input, EXPANSIONS[pair[2]][1]) :
           ExpandedTo(m[1], m[2], EXPANSIONS[pair[2]][2])

\* C7 happens: expand_abbreviations has returned on a line that holds "w/o"
\* after other text.
LongerAbbreviationExpanded ==
  /\ op = "expand_abbreviations"
  /\ \E m \in AbbreviationMatches(input, S("w/o")) : m[1] > 1

\* C8: decompress_document expands no abbreviation match that starts at a
\* protected position (inside a URL, a preserve phrase or an inline fence
\* pair).
DecompressionRespectsProtection ==
  op = "decompress_document" /\ IsLine(input) =>
    \A k \in DOMAIN EXPANSIONS :
      \A m \in AbbreviationMatches(input, EXPANSIONS[k][1]) :
        m[1] \in SpanProtected(input) => Copied(m[1], m[2])

\* C9: the tag of a line is decided by a toggle that flips once at each line
\* that starts with the fence marker: a line with an odd number of fence
\* lines before it is code and is output unchanged, every other line that is
\* no fence line goes through the stages; so, with an odd number of fence
\* lines in the document, every line after the last of them is unchanged.
UnterminatedFence ==
  op \in Drivers =>
    LET lines == Split(input, NL)
        result == Split(output, NL)
    IN  /\ Len(result) >= Len(lines)
        /\ \A i \in DOMAIN lines :
             result[i] = IF CodeLine(lines, i) THEN lines[i] ELSE Processed(op, lines[i])
        /\ FencesBefore(lines, Len(lines) + 1) % 2 = 1 =>
             \A i \in DOMAIN lines :
               (\A j \in i .. Len(lines) : ~FenceLine(lines, j)) => result[i] = lines[i]

\* C9 happens: decompress_document has returned a document with an odd
\* number of fence lines and, after the last of them, a line the stages
\* would have changed.
OpenFenceLineKept ==
  /\ op = "decompress_document"
  /\ LET lines == Split(input, NL)
     IN  /\ FencesBefore(lines, Len(lines) + 1) % 2 = 1
         /\ \E i \in DOMAIN lines :
              /\ \A j \in i .. Len(lines) : ~FenceLine(lines, j)
              /\ Processed(op, lines[i]) # lines[i]

\* C10: every stage of both directions and both drivers return a text, none
\* raises.
Totality ==
  op # "none" =>
    /\ ~raised
    /\ DOMAIN output = 1 .. Len(output)
    /\ DOMAIN origin = DOMAIN output

\* C10 happens: the pattern expansions have returned on a "- run:" line
\* whose value does not split in two parts.
RunLineExpanded ==
  /\ op = "pattern_expansions"
  /\ StartsWith(input, S("- run: "))
  /\ Len(input) > Len(S("- run: "))
  /\ FindLiteral(input, ARROW_SEPARATOR, 1) = <<>>

\* The value yaml.safe_load returned is an entry of a shape the expander
\* does not expect: no mapping, or a mapping with an item that is no string
\* under changes or issues, or a value that is no string under next.
UnexpectedEntry(entry) ==
  \/ entry.type # "dict"
  \/ \E k \in DOMAIN entry.pairs :
       \/ /\ entry.pairs[k][1] \in {S("changes"), S("issues")}
          /\ entry.pairs[k][2].type = "list"
          /\ \E j \in DOMAIN entry.pairs[k][2].items : entry.pairs[k][2].items[j].type # "str"
       \/ /\ entry.pairs[k][1] = S("next")
          /\ entry.pairs[k][2].type # "str"

Malformed(v) ==
  \/ v.type # "list"
  \/ \E k \in DOMAIN v.items : UnexpectedEntry(v.items[k])

\* C11: expand_dev_log_yaml never raises, and returns its input unchanged
\* when the content fails to parse, parses to what is no list, or holds an
\* entry of an unexpected shape.
DevLogFallback ==
  op = "expand_dev_log_yaml" =>
    /\ ~raised
    /\ Malformed(parsed) => output = input

\* The tokens of a text in their order, and what stands between them.
Tokens(text) ==
  LET spans == Words(text)
      nth(k) == CHOOSE w \in spans : Cardinality({v \in spans : v[1] <= w[1]}) = k
  IN  [k \in 1 .. Cardinality(spans) |-> Slice(text, nth(k)[1], nth(k)[2])]
Separators(text) == SelectSeq(text, LAMBDA c : c \notin WordChars)

\* The lowercase form of the token is no key of known_restorations.
DictionaryMiss(token) ==
  \A k \in DOMAIN known_restorations : known_restorations[k][1] # Lower(token)

\* C12: restore_vowels does not raise and leaves unchanged every token whose
\* lowercase form is no key of known_restorations; a line none of whose
\* tokens is a key is returned identical.
DictionaryMissNoOp ==
  op = "restore_vowels" =>
    /\ ~raised
    /\ Len(Tokens(output)) = Len(Tokens(input))
    /\ Separators(output) = Separators(input)
    /\ \A k \in DOMAIN Tokens(input) :
         DictionaryMiss(Tokens(input)[k]) => Tokens(output)[k] = Tokens(input)[k]
    /\ (\A k \in DOMAIN Tokens(input) : DictionaryMiss(Tokens(input)[k])) => output = input

\* C12 happens: restore_vowels has returned a line with a token that holds
\* three consonants in a row, so that the dictionary was asked, has capitals
\* and is no key.
MissedTokenKept ==
  /\ op = "restore_vowels"
  /\ \E k \in DOMAIN Tokens(input) :
       /\ HasConsonantCluster(Tokens(input)[k])
       /\ DictionaryMiss(Tokens(input)[k])
       /\ Tokens(input)[k] # Lower(Tokens(input)[k])

\* The document holds a line that is not code and begins, unprotected, with
\* the article "the ".
ProseArticle(document) ==
  LET lines == Split(document, NL)
  IN  \E i \in DOMAIN lines :
        /\ ~CodeLine(lines, i)
        /\ StartsWith(lines[i], S("the "))
        /\ ~Protected(lines[i], 1)

\* C13: the round trip is not the identity: decompress_document of the
\* compressed form of a document with a prose line that begins with an
\* article differs from the document, so there is a document x with
\* decompress_document(compress_document(x)) # x.
RoundTripNotGuaranteed ==
  op = "decompress_document" /\ original # NoText /\ ProseArticle(original) =>
    ~raised /\ output # original

\* C13 happens: a document with an article has been compressed, written and
\* decompressed, and what came back is another text.
RoundTripDiffers ==
  /\ op = "decompress_document"
  /\ original # NoText
  /\ ProseArticle(original)
  /\ output # original

\* What the driver named name returns on the text when it runs alone.
Alone(name, text) ==
  IF name = "compress_document" THEN compress_document(text) ELSE decompress_document(text)

\* C14: under any interleaving of calls of compress_document and
\* decompress_document on several documents, each call returns what the
\* driver returns when it runs alone on its document.
NoSharedState ==
  \A c \in DOMAIN calls :
    calls[c].returned =>
      /\ calls[c].raised = Alone(calls[c].name, calls[c].text).raised
      /\ ~calls[c].raised => calls[c].output = Alone(calls[c].name, calls[c].text).text

\* C14 happens: a call has returned a changed document while another call
\* stood inside a fenced block.
ReturnedBesideOpenFence ==
  \E c, d \in DOMAIN calls :
    /\ calls[c].returned
    /\ calls[c].output # calls[c].text
    /\ ~calls[d].returned
    /\ calls[d].in_code_block

\* C16: when a line holds an odd number of unescaped fence markers,
\* is_in_code_block is false for every position after the last marker, the
\* one without a partner.
DanglingMarkerProtectsNothing ==
  op \in Stages =>
    LET markers == code_markers(input, 1)
    IN  Len(markers) % 2 = 1 =>
          \A pos \in markers[Len(markers)] + 3 .. Len(input) : ~is_in_code_block(input, pos)

\* The word at the span is one the vowel reducer rewrites: its start is
\* unprotected, its lowercase form is no never-compress word and it is
\* longer than the short-word threshold.
Rewritten(text, span) ==
  /\ ~Protected(text, span[1])
  /\ Lower(Slice(text, span[1], span[2])) \notin Range(NEVER_COMPRESS)
  /\ span[2] - span[1] > ShortWord

\* The positions of the text the vowel reducer keeps: the separators, the
\* words it does not rewrite, and of a rewritten word the consonants and
\* the first vowel of each run of vowels.
KeptByReducer(text) ==
  LET rewritten == {span \in Words(text) : Rewritten(text, span)}
  IN  {p \in DOMAIN text :
         \A span \in rewritten :
           p \in span[1] .. span[2] - 1 =>
             text[p] \notin Vowels \/ p = span[1] \/ text[p - 1] \notin Vowels}

\* C17: reduce_vowels rewrites a word exactly when its start is unprotected,
\* its lowercase form is no never-compress word and it is longer than 6; of a
\* rewritten word it keeps the consonants and the first vowel of each run
\* of vowels, in order, so that no two vowels are adjacent; everything else
\* is copied.
VowelReducerRule ==
  op = "reduce_vowels" =>
    /\ ~raised
    /\ LET kept == KeptByReducer(input)
       IN  origin = SelectSeq([p \in DOMAIN input |-> p], LAMBDA p : p \in kept)
    /\ output = [k \in DOMAIN origin |-> input[origin[k]]]
    /\ \A span \in Words(input) :
         Rewritten(input, span) =>
           \A j \in 1 .. Len(KeptOf(span[1], span[2])) - 1 :
             ~(KeptOf(span[1], span[2])[j] \in Vowels /\ KeptOf(span[1], span[2])[j + 1] \in Vowels)

\* C17 happens: reduce_vowels has returned a line with a long word that lost
\* vowels and a word that it left alone.
LongWordReduced ==
  /\ op = "reduce_vowels"
  /\ \E span \in Words(input) :
       Rewritten(input, span) /\ KeptOf(span[1], span[2]) # Slice(input, span[1], span[2])
  /\ \E span \in Words(input) : ~Rewritten(input, span)

\* The articles with their trailing space.
Articles == {S("a "), S("an "), S("the ")}

\* An article stands at position i of the text, at the start of the text or
\* after a whitespace character.
ArticleAt(text, i, article) ==
  StartsAt(text, article, i) /\ (i = 1 \/ text[i - 1] \in SpaceChars)

\* The positions of the articles that begin at an unprotected position.
ElidedPositions(text) ==
  LET prot == ProtectedSet(text)
  IN  UNION {i .. i + Len(article) - 1 :
               <<i, article>> \in {x \in (DOMAIN text) \X Articles :
                                     x[1] \notin prot /\ ArticleAt(text, x[1], x[2])}}

\* C18: the output of remove_articles is the input without the segments
\* "a ", "an " and "the " that begin at an unprotected position which is
\* the start of the line or follows a whitespace character; every such
\* segment is deleted, nothing else is changed, and the output is no longer
\* than the input.
ArticleElision ==
  op = "remove_articles" =>
    /\ ~raised
    /\ LET elided == ElidedPositions(input)
       IN  origin = SelectSeq([p \in DOMAIN input |-> p], LAMBDA p : p \notin elided)
    /\ output = [k \in DOMAIN origin |-> input[origin[k]]]
    /\ Len(output) <= Len(input)

\* C18 happens: remove_articles has deleted an article and has kept the
\* characters of an article that follow no whitespace character.
ArticleElidedAndKept ==
  /\ op = "remove_articles"
  /\ \E i \in DOMAIN input, article \in Articles :
       ArticleAt(input, i, article) /\ Deleted(i, i + Len(article))
  /\ \E i \in DOMAIN input, article \in Articles :
       StartsAt(input, article, i) /\ Copied(i, i + Len(article))

\* The abbreviation as C19 says it is inserted for the token: in the case
\* pattern of the token, verbatim for a mixed pattern.
StatedCasing(token, abbreviation) ==
  IF CasePattern(token) = "lowercase" THEN Lower(abbreviation)
  ELSE IF CasePattern(token) = "UPPERCASE" THEN Upper(abbreviation)
  ELSE IF CasePattern(token) = "Capitalized" THEN Capitalize(abbreviation)
  ELSE abbreviation

\* The same, a mixed token that begins with a capital counting as
\* capitalized.
FirstLetterCasing(token, abbreviation) ==
  IF CasePattern(token) = "lowercase" THEN Lower(abbreviation)
  ELSE IF CasePattern(token) = "UPPERCASE" THEN Upper(abbreviation)
  ELSE IF token[1] \in UpperSet THEN Capitalize(abbreviation)
  ELSE abbreviation

\* The unprotected whole-word occurrences of the terms, each with the entry
\* of its term.
ReplacedTerms(text) ==
  {<<k, o>> \in (DOMAIN REPLACEMENTS) \X WholeTerms(text) :
     /\ o \in WholeOccurrences(text, REPLACEMENTS[k][1])
     /\ ~Protected(text, o[1])}

\* C19 as the specification words it: replace_common_words inserts the
\* abbreviation in lowercase for a lowercase token, in uppercase for an
\* uppercase token, capitalized for a token with a capital followed by
\* lowercase, and verbatim for every other token.
CasingRuleAsStated ==
  op = "replace_common_words" =>
    \A x \in ReplacedTerms(input) :
      ExpandedTo(x[2][1], x[2][2],
                 StatedCasing(Slice(input, x[2][1], x[2][2]), REPLACEMENTS[x[1]][2]))

\* C19, amended: replace_common_words inserts the abbreviation in lowercase
\* for a lowercase token, in uppercase for an uppercase token, capitalized
\* (first character in uppercase, the rest in lowercase) for every other
\* token that begins with a capital, whatever the case of its other
\* letters, and verbatim for a mixed-case token that begins with a
\* lowercase letter.
CasingRule ==
  op = "replace_common_words" =>
    \A x \in ReplacedTerms(input) :
      ExpandedTo(x[2][1], x[2][2],
                 FirstLetterCasing(Slice(input, x[2][1], x[2][2]), REPLACEMENTS[x[1]][2]))

\* C19 happens: replace_common_words has replaced a mixed-case token that
\* begins with a capital and a mixed-case token that begins with a
\* lowercase letter and has capitals in its abbreviation.
MixedCaseReplaced ==
  /\ op = "replace_common_words"
  /\ \E x \in ReplacedTerms(input) :
       LET token == Slice(input, x[2][1], x[2][2])
       IN  CasePattern(token) = "mixed" /\ token[1] \in UpperSet /\ Deleted(x[2][1], x[2][2])
  /\ \E x \in ReplacedTerms(input) :
       LET token == Slice(input, x[2][1], x[2][2])
       IN  /\ CasePattern(token) = "mixed" /\ token[1] \notin UpperSet
           /\ REPLACEMENTS[x[1]][2] # Lower(REPLACEMENTS[x[1]][2])
           /\ Deleted(x[2][1], x[2][2])

\* C20: in replace_common_words and replace_symbols, at the moment a match
\* (start, end) of an entry is handled, the current text at [start, end) is
\* the token that was matched on the snapshot the matches were found on.
OffsetsValid ==
  substitution.stage # "none" /\ substitution.j <= Len(substitution.matches) =>
    LET match == substitution.matches[substitution.j]
    IN  /\ match[2] <= Len(substitution.text.text) + 1
        /\ Slice(substitution.text.text, match[1], match[2])
             = Slice(substitution.snapshot, match[1], match[2])
        /\ \A k \in substitution.j + 1 .. Len(substitution.matches) :
             substitution.matches[k][2] <= match[1]

\* C20 happens: a match is about to be handled after another match of the
\* same entry has been replaced by a text of another length.
MatchHandledAfterRewrite ==
  /\ substitution.stage # "none"
  /\ substitution.j > 1
  /\ substitution.j <= Len(substitution.matches)
  /\ Len(substitution.text.text) # Len(substitution.snapshot)

\* The sessions of the Development History of a dev log: the blocks
\* extract_sessions finds, without the summary of the archive a rotation
\* leaves at the end of the history.
LoggedSessions(content) ==
  SelectSeq(extract_sessions(content).sessions,
            LAMBDA block : ~StartsWith(block, S("### Archived Sessions")))

\* The session stands in a file of the archive directory.
Archived(session, archive) ==
  \E date \in DOMAIN archive : Search(archive[date], Strip(session), 1) > 0

\* C15: after a run of the rotation on a dev log with more than N sessions
\* the Development History holds exactly the first N sessions of the log, in
\* their order, and the sessions after the N-th stand in archive files;
\* after a run on a dev log with N or fewer sessions nothing is archived.
RotationKeepsRecent ==
  rotation.runs > 0 /\ ~rotation.exited =>
    LET old == LoggedSessions(rotation.before)
        new == LoggedSessions(rotation.dev_log)
        keep == rotation.sessions
    IN  IF Len(old) > keep
        THEN /\ [k \in DOMAIN new |-> Strip(new[k])] = [k \in 1 .. keep |-> Strip(old[k])]
             /\ \A k \in keep + 1 .. Len(old) : Archived(old[k], rotation.archive)
        ELSE rotation.archive = rotation.archive_before

\* The whole-word occurrences of the phrases of the symbol map that are not
\* protected, each with the entry of its phrase.
ReplacedPhrases(text) ==
  {<<k, o>> \in (DOMAIN SYMBOLS) \X UNION {WholeOccurrences(text, SYMBOLS[k][1]) : k \in DOMAIN SYMBOLS} :
     /\ o \in WholeOccurrences(text, SYMBOLS[k][1])
     /\ ~Protected(text, o[1])}

\* C21: replace_symbols replaces every unprotected whole-word occurrence of
\* a phrase of the symbol map, in whatever case, by the glyph of that
\* phrase's own entry, written as the entry has it; "not equal to" becomes
\* the not-equal sign.
PhraseBecomesItsGlyph ==
  op = "replace_symbols" =>
    \A x \in ReplacedPhrases(input) : ExpandedTo(x[2][1], x[2][2], SYMBOLS[x[1]][2])

\* The stage F applied to the line a stage before it returned, as a text of
\* its own.
Then(r, F(_)) == IF r.raised THEN r ELSE F(Traced(r.text))

\* C22 reads: the stages in the order in which the driver named name is said
\* to apply them to a prose line.
StagesInOrder(name, line) ==
  IF name = "compress_document"
  THEN Then(Then(Then(replace_common_words(Traced(line)), remove_articles), replace_symbols),
            reduce_vowels)
  ELSE Then(Then(expand_abbreviations(Traced(line)), pattern_expansions), restore_vowels)

\* C22: on every prose line compress_document returns
\* reduce_vowels(replace_symbols(remove_articles(replace_common_words(line))))
\* and decompress_document returns
\* restore_vowels(pattern expansions(expand_abbreviations(line))), each stage
\* working on the line as the stage before it left it.
StageOrder ==
  op \in Drivers =>
    LET lines == Split(input, NL)
        staged == [i \in DOMAIN lines |->
                     IF CodeLine(lines, i) THEN Traced(lines[i]) ELSE StagesInOrder(op, lines[i])]
    IN  IF \E i \in DOMAIN lines : staged[i].raised THEN raised
        ELSE ~raised /\ Split(output, NL) = [i \in DOMAIN lines |-> staged[i].text]

\* C22 happens: both drivers have run, one after the other, on a document
\* with a prose line after a closed fence, and the second has changed it.
ProseLineStaged ==
  /\ op = "decompress_document"
  /\ original # NoText
  /\ LET lines == Split(input, NL)
     IN  \E i \in DOMAIN lines :
           /\ ~CodeLine(lines, i)
           /\ \E j \in 1 .. i - 1 : FenceLine(lines, j)
           /\ Split(output, NL)[i] # lines[i]

\* The key of a line of the form "- key: value", and <<>> for any other line.
YamlKey(line) ==
  LET b == RunEnd(line, 3, WordChars)
  IN  IF StartsWith(line, S("- ")) /\ b > 3 /\ StartsAt(line, S(": "), b) /\ b + 2 <= Len(line)
      THEN Slice(line, 3, b) ELSE <<>>

\* The keys for which expand_yaml_line has a template of its own.
TemplateKeys == {S("chk"), S("run"), S("if")}

\* C23: decompress_document turns a line "- key: value" with one of the
\* system-name keys auth, db, api, cache, queue into a bullet that begins
\* with "- The <key> system uses " (the key as it is or expanded), and a
\* line with a key that is not recognized into a bullet "- <key>: ..."
\* that has no such wording.
SystemKeyDispatch ==
  op = "decompress_document" /\ YamlKey(input) # <<>> =>
    LET key == YamlKey(input)
    IN  IF key \in SYSTEM_KEYS
        THEN \E name \in {key, expand_word(key)} :
               StartsWith(output, S("- The ") \o name \o S(" system uses "))
        ELSE key \notin TemplateKeys =>
               /\ StartsWith(output, S("- "))
               /\ Search(output, S(": "), 1) > 0
               /\ Search(output, S(" system uses "), 1) = 0

\* The arrow at position p of the line stands between a word token before
\* it, white space apart, and text after it.
ArrowBetween(text, p) ==
  /\ text[p] = ARROW
  /\ p < Len(text)
  /\ \E a \in 1 .. p - 1 :
       text[a] \in WordChars /\ \A b \in a + 1 .. p - 1 : text[b] \in SpaceChars

\* C24: the output of decompress_document for a prose line holds none of the
\* arrows of the line that stood between a word token and following text:
\* each has been rewritten to "returns".
ArrowsExpanded ==
  op = "decompress_document" =>
    \A p \in DOMAIN input : ArrowBetween(input, p) => ~CopiedAt(p)

\* The tokens of the line whose lowercase form is a key of the restoration
\* dictionary, as spans.
DictionaryHits(text) ==
  {w \in Words(text) :
     Get(known_restorations, Lower(Slice(text, w[1], w[2])), NoRestoration) # NoRestoration}

\* The expansion of the dictionary for the token, in the case of the token:
\* uppercase for an all-caps token, capitalized for a token that begins with
\* a capital, as the dictionary has it otherwise.
CasedRestoration(token) ==
  LET full == Get(known_restorations, Lower(token), token)
  IN  IF \A i \in DOMAIN token : token[i] \notin LowerSet THEN Upper(full)
      ELSE IF token[1] \in UpperSet THEN Capitalize(full)
      ELSE full

\* C25 as the specification words it: restore_vowels replaces every token
\* whose lowercase form is a key of the restoration dictionary by the
\* expansion of the dictionary in the case of the token.
EveryKeyRestored ==
  op = "restore_vowels" =>
    \A w \in DictionaryHits(input) :
      ExpandedTo(w[1], w[2], CasedRestoration(Slice(input, w[1], w[2])))

\* C25, amended: restore_vowels replaces every token that holds three or
\* more consonants in a row and whose lowercase form is a key of the
\* restoration dictionary by the expansion of the dictionary in the case of
\* the token, and leaves a token without three consonants in a row as it
\* is, a key of the dictionary or not.
ClusterKeyRestored ==
  op = "restore_vowels" =>
    \A w \in Words(input) :
      LET token == Slice(input, w[1], w[2])
      IN  IF w \in DictionaryHits(input) /\ HasConsonantCluster(token)
          THEN ExpandedTo(w[1], w[2], CasedRestoration(token))
          ELSE ~HasConsonantCluster(token) => Copied(w[1], w[2])

\* C25 happens: restore_vowels has returned on a line with an all-caps key
\* and a key in another casing that begins with a capital, both replaced.
CasedKeysRestored ==
  /\ op = "restore_vowels"
  /\ \E w \in DictionaryHits(input) :
       IsUpper(Slice(input, w[1], w[2])) /\ Deleted(w[1], w[2])
  /\ \E w \in DictionaryHits(input) :
       ~IsUpper(Slice(input, w[1], w[2])) /\ input[w[1]] \in UpperSet /\ Deleted(w[1], w[2])

\* The unprotected whole-word occurrences of "MCP" and of "mcp" in a line,
\* as spans.
AcronymOccurrences(text) ==
  {o \in WholeOccurrences(text, S("MCP")) :
     Slice(text, o[1], o[2]) \in {S("MCP"), S("mcp")} /\ ~Protected(text, o[1])}

\* C26: compress_document replaces every unprotected whole-word occurrence
\* of "MCP" or "mcp" in a prose line with the text "Model Context
\* Protocol", and decompress_document on the compressed line does not
\* write the acronym again.
AcronymExpanded ==
  /\ op = "compress_document" /\ IsLine(input) /\ ~StartsWith(input, FENCE) =>
       \A o \in AcronymOccurrences(input) : ExpandedTo(o[1], o[2], S("Model Context Protocol"))
  /\ op = "decompress_document" /\ original # NoText /\ IsLine(original)
       /\ AcronymOccurrences(original) # {} =>
         Occurrences(output, S("MCP")) = {}

\* The spans of the lines of a document.
LineSpans(text) ==
  LET breaks == {p \in DOMAIN text : text[p] = NL}
      starts == {1} \cup {p + 1 : p \in breaks}
  IN  {<<s, CHOOSE e \in (breaks \cup {Len(text) + 1}) :
               e >= s /\ \A b \in breaks : b >= s => e <= b>> : s \in starts}

\* C27: compress_document and decompress_document return as many lines as
\* the document has; every line break of the output is a line break of the
\* input, copied, and the other way round; the i-th line of the output is
\* made of the i-th line of the input alone: it is that line for a code line
\* and what the stages make of that line for a prose line.
LineStructure ==
  op \in Drivers /\ ~raised =>
    LET lines == Split(input, NL)
        result == Split(output, NL)
    IN  /\ Len(result) = Len(lines)
        /\ \A k \in DOMAIN output : output[k] = NL <=> (origin[k] # 0 /\ input[origin[k]] = NL)
        /\ \A p \in DOMAIN input : input[p] = NL => CopiedAt(p)
        /\ \A i \in DOMAIN lines :
             result[i] = IF CodeLine(lines, i) THEN lines[i] ELSE Processed(op, lines[i])
        /\ \A k \in DOMAIN output :
             origin[k] # 0 =>
               \E span \in LineSpans(input), to \in LineSpans(output) :
                 /\ origin[k] \in span[1] .. span[2]
                 /\ k \in to[1] .. to[2]
                 /\ Cardinality({p \in 1 .. span[1] - 1 : input[p] = NL})
                      = Cardinality({j \in 1 .. to[1] - 1 : output[j] = NL})

\* C27 happens: a driver has returned on a document of MaxLines lines after
\* making a line that is not the last one shorter or longer.
LineRewrittenInPlace ==
  /\ op \in Drivers
  /\ ~raised
  /\ LET lines == Split(input, NL)
         result == Split(output, NL)
     IN  /\ Len(lines) = MaxLines
         /\ \E i \in 1 .. Len(lines) - 1 : Len(result[i]) # Len(lines[i])

\* C28: after one run of the rotation every session of the original
\* Development History stands in the rewritten dev log or in the archive
\* file of its date (of "unknown-date" for a session without a date), also
\* when that file was there before the run.
NoSessionLost ==
  rotation.runs = 1 /\ ~rotation.exited =>
    \A k \in DOMAIN LoggedSessions(rotation.before) :
      LET session == Strip(LoggedSessions(rotation.before)[k])
          date == session_date(session)
      IN  \/ Search(rotation.dev_log, session, 1) > 0
          \/ /\ date \in DOMAIN rotation.archive
             /\ Search(rotation.archive[date], session, 1) > 0

\* The sessions as they are written to a file: without the white space
\* around them.
Stripped(sessions) == [k \in DOMAIN sessions |-> Strip(sessions[k])]

\* C29: a second run of the rotation with the same N, on the dev log the
\* first run wrote, finds at most N sessions, leaves the archive directory
\* as it is and leaves the sessions of the Development History as they are.
RotationStable ==
  rotation.runs = 2 /\ ~rotation.exited =>
    /\ Len(extract_sessions(rotation.before).sessions) <= rotation.sessions
    /\ rotation.archive = rotation.archive_before
    /\ Stripped(LoggedSessions(rotation.dev_log)) = Stripped(LoggedSessions(rotation.before))

\* C30: reduce_vowels applied to a line it returned returns that line:
\* reduce_vowels(reduce_vowels(T)) = reduce_vowels(T).
ReductionIdempotent ==
  op = "reduce_vowels" /\ original # NoText => output = input

\* C30 happens: reduce_vowels has returned for the second time, on a line
\* that its first run made shorter and that still holds a run of vowels in a
\* word longer than ShortWord.
ReducedTwice ==
  /\ op = "reduce_vowels"
  /\ original # NoText
  /\ Len(input) < Len(original)
  /\ \E w \in Words(input) :
       /\ w[2] - w[1] > ShortWord
       /\ \E p \in w[1] .. w[2] - 2 : input[p] \in Vowels /\ input[p + 1] \in Vowels

====
